---- MODULE Spec2Model ----
(***************************************************************************)
(* Asset streaming pipeline of the avatar: the preloader web worker        *)
(* (workers/preloader.worker.ts), the main-thread PreloaderWithWorker      *)
(* (avatar/utils/Preloader.ts) and the progress aggregation of Avatar.vue. *)
(*                                                                         *)
(* Bytes are counted in abstract units; a percentage is                    *)
(* floor(loaded * 100 / total), which does not depend on the unit.         *)
(* Asset names are unique keys (AssetDescriptor.name), so add() is only    *)
(* exercised with names that are not yet registered. Any name can carry    *)
(* any kind, so the names are interchangeable and add() is exercised with  *)
(* the names in one fixed order.                                           *)
(*                                                                         *)
(* worker.terminate() empties the port towards the main thread: messages   *)
(* posted but not yet handled are dropped. Not covered: a Worker that      *)
(* cannot be constructed, the worker's `error` event (uncaught script      *)
(* errors), and the scene set-up done by Avatar's first COMPLETED          *)
(* listener. The weights 0.9 / 0.05 / 0.05 are kept in hundredths and the  *)
(* timer fractions are integers, so the floor is computed exactly.         *)
(*                                                                         *)
(* The animation interface of VrmController (avatar/utils/VrmController)   *)
(* is modelled with the events of THREE.AnimationMixer: 'finished' and     *)
(* 'loop' are dispatched on the mixer for every action, a LoopOnce action  *)
(* with clampWhenFinished is paused at its end, and an action is disabled  *)
(* when its fade-out ends. Every setVRM creates a new mixer; the mixers it  *)
(* replaced are not told apart. update(delta) is modelled in two parts:    *)
(* the events of mixer.update (clipAdvance, clipFinished, clipLooped,      *)
(* fadeDone) and everything else (ControllerUpdate). Times of the          *)
(* controller are counted in units of 25 ms, expression weights in         *)
(* thousandths; the sine of a blink is taken at the sixths of its          *)
(* duration.                                                               *)
(*                                                                         *)
(* The compositor of Avatar.vue (animate, hasCameraMoved, pause, resume,   *)
(* visibility) is modelled with the camera pose along one axis, in units   *)
(* of the two thresholds, and with the clock as the time elapsed since it  *)
(* was last read. The listeners Avatar.vue registers on the preloader are  *)
(* modelled in two parts: what they do to the progress (EmitProgress,      *)
(* EmitCompleted, splatAdded) and what they do to the compositor           *)
(* (progressListener, completedListener, startAnimate). The callbacks      *)
(* playAction passes to requestAnimationFrame are counted by the number    *)
(* of animation frames they still wait for; a rig is taken to have spring  *)
(* bones.                                                                  *)
(*                                                                         *)
(* Specifications: Spec (pipeline), SpecKnown (sizes known at HEAD),       *)
(* SpecApi (load() called in any status), SpecWorker (the worker behind    *)
(* its message interface), SpecLive (a load that succeeds, under           *)
(* fairness), SpecVrm (VrmController's clips), SpecSpring (playAction's    *)
(* reset of the spring bones), SpecBlink (auto-blink), SpecPaused (update  *)
(* with a paused clip), SpecExpr (expressions), SpecCamera, SpecBurst,     *)
(* SpecClock and SpecPause (compositor), SpecMounted (the component up to  *)
(* its teardown).                                                          *)
(***************************************************************************)
EXTENDS Integers, Sequences, FiniteSets, TLC

\* ----------------------------------------------------------------- bounds
MaxBody == 1          \* largest body, HEAD size or Content-Length, in units
TickMid == 50         \* an intermediate elapsed-time percentage of a timer
MaxLoadRejects == 1   \* rejected load() calls followed in one run
MaxPlays == 2         \* playAction calls that start a playback in one run
MaxElapsed == 3       \* longest time between two readings of the clock, in units

NameOrder == <<"model", "splat_scene">>
Names == {NameOrder[i] : i \in 1..Len(NameOrder)}
ExtInputs == {"vrm", "ply"}
\* a response is [kind, length]; length -1 stands for "no Content-Length header"
HeadResponses == [kind : {"network_error", "not_ok"}, length : {-1}]
                   \cup [kind : {"ok"}, length : -1..MaxBody]
GetLengths == -1..MaxBody
KnownBodies == {1, 3}
\* bodies of one unit behind a HEAD that fails, gives no size, or gives it
UnitHeads == {[kind |-> "network_error", length |-> -1],
              [kind |-> "ok", length |-> -1],
              [kind |-> "ok", length |-> 1]}
UnitLengths == {-1, 1}
Ticks == {0, TickMid, 100}

\* -------------------------------------------------------- program constants
RESOURCE_LOADING_WEIGHT == 90   \* 0.9, in hundredths
SCENE_RENDERING_WEIGHT == 5     \* 0.05, in hundredths
FORCE_WAIT_WEIGHT == 5          \* 0.05, in hundredths

VARIABLES
    \* PreloaderWithWorker (main thread)
    resources,            \* this.resources: sequence of [name, type, data]
    status,               \* this.status
    worker,               \* this.worker # null
    loadedResourcesCount,
    totalResourcesCount,
    pendingGLTFLoads,     \* names with a GLTF decode in flight
    workerInitialized,
    \* message ports
    inbox,                \* main -> worker messages not yet handled
    chan,                 \* worker -> main messages not yet handled
    \* preloader.worker.ts
    pc,                   \* position of each asset's HEAD / loadResource
    size,                 \* resourcesInfo[name].size
    loaded,               \* resourcesInfo[name].loaded
    totalBytes,
    totalLoadedBytes,
    lastReportedProgress,
    isInitialized,
    loadSettled,          \* Promise.all(loadPromises) has been rejected
    \* Avatar.vue progress aggregation
    resourceProgress,
    sceneRenderingProgress,
    forceWaitProgress,
    preloadProgress,
    avatarPhase,
    \* observations (listeners' view and history of the session)
    headResp,             \* answer each HEAD request got
    delivered,            \* names whose RESOURCE_LOADED was handled
    allCompletedSeen,     \* ALL_COMPLETED was handled
    decodeFailed,         \* names whose decode was rejected
    progressLast,         \* last value passed to `progress` listeners
    count100,             \* number of `progress` events with value 100
    completedCount,       \* number of `completed` events
    errorCount,           \* number of `error` events
    completedBy,          \* what emitted `completed`: "load", "message", "decode"
    loadThrown,           \* number of load() calls that threw
    clientSent,           \* message types posted by a direct holder of the worker
    \* VrmController
    vrm,                  \* this._vrm: 0 is null, otherwise the rig of the n-th setVRM
    animationMixer,       \* this._animationMixer: 0 is null, otherwise CurrentMixer
    orphanRunning,        \* an action left the _actions map while still scheduled
    actions,              \* this._actions: per clip name, the AnimationAction
    activeActionName,     \* this._activeActionName ("none": null)
    listeners,            \* mixer event listeners: <<playback, "finished" | "loop">>
    plays,                \* the playbacks started: clip name and mixer listened on
    \* observations of the controller
    lastCall,             \* the playAction call just made and its outcome
    lastEvent,            \* the last mixer event: kind and playback of its action
    firedNow,             \* playbacks whose callback ran on the last mixer event
    lastUpdate,           \* the update(delta) just made and what it did
    frameCallbacks,       \* requestAnimationFrame callbacks of playAction, waiting
    springBoneResets,     \* springBoneManager.reset() calls those callbacks made
    \* VrmController: auto-blink
    autoBlinkEnabled,     \* this._autoBlinkEnabled
    blinkTimer,           \* this._blinkTimer, in time units
    nextBlinkTime,        \* this._nextBlinkTime, in time units
    isBlinking,           \* this._isBlinking
    blinkProgress,        \* this._blinkProgress, in time units
    blinkPeak,            \* highest blink value set since the blink began
    \* the rig's expression manager
    expressionManager,    \* this._vrm.expressionManager exists
    expressionValue,      \* weight of each expression; NoValue: the rig has none
    \* Avatar.vue: the compositor
    animating,            \* animate() was called: the frame loop runs
    isPaused,
    needUpdateBackground,
    initialRenderFrames,
    gaussianSplatReady,
    splatRenderReady,     \* viewer.viewer.splatRenderReady
    cameraPose,           \* camera.position and camera.quaternion
    cameraState,          \* the pose snapshot of hasCameraMoved
    elapsed,              \* time since the last clock.getDelta() (or clock.start())
    \* observations of the compositor
    sinceResume,          \* time since a resume no frame has followed yet
    pausedFor,            \* length of the pause that resume ended
    lastFrame,            \* the frame just made
    released,             \* what onUnmounted has released, in order
    hidden,               \* document.hidden
    hostPaused,           \* the host has called pause() and not resume() since
    backgroundPose        \* the camera pose of the last environment render

mainVars == <<resources, status, worker, loadedResourcesCount, totalResourcesCount,
              pendingGLTFLoads, workerInitialized>>
portVars == <<inbox, chan>>
workerVars == <<pc, size, loaded, totalBytes, totalLoadedBytes,
                lastReportedProgress, isInitialized, loadSettled>>
avatarVars == <<resourceProgress, sceneRenderingProgress, forceWaitProgress,
                preloadProgress, avatarPhase>>
obsVars == <<headResp, delivered, allCompletedSeen, decodeFailed, progressLast,
             count100, completedCount, errorCount, completedBy>>
ctlVars == <<loadThrown, clientSent>>
preloadVars == <<mainVars, portVars, workerVars, avatarVars, obsVars, ctlVars>>
blinkVars == <<autoBlinkEnabled, blinkTimer, nextBlinkTime, isBlinking,
               blinkProgress, blinkPeak>>
exprVars == <<expressionManager, expressionValue>>
springVars == <<frameCallbacks, springBoneResets>>
vrmVars == <<vrm, animationMixer, orphanRunning, actions, activeActionName, listeners, plays,
             lastCall, lastEvent, firedNow, lastUpdate, springVars, blinkVars, exprVars>>
compVars == <<animating, isPaused, needUpdateBackground, initialRenderFrames,
              gaussianSplatReady, splatRenderReady, cameraPose, cameraState,
              elapsed, sinceResume, pausedFor, lastFrame, released, hidden,
              hostPaused, backgroundPose>>
vars == <<preloadVars, vrmVars, compVars>>

\* ---------------------------------------------------------------- helpers
Max(a, b) == IF a > b THEN a ELSE b

RECURSIVE SumOver(_, _)
SumOver(S, f) ==
    IF S = {} THEN 0
    ELSE LET x == CHOOSE y \in S : TRUE IN f[x] + SumOver(S \ {x}, f)

RegisteredNames == {resources[i].name : i \in 1..Len(resources)}

\* WorkerResponse: type, progress / totalBytes, resourceName, error
Msg(t, p, n) == [type |-> t, progress |-> p, name |-> n, error |-> ""]

ErrorMsg(n, e) == [type |-> "ERROR", progress |-> 0, name |-> n, error |-> e]

\* ------------------------------------------------- PreloadResource (types)
\* PreloadResource constructor: the kind is derived from the URL extension.
TypeOfExtension(ext) ==
    CASE ext = "vrm" -> "VRM"
      [] ext = "vrma" -> "VRMA"
      [] ext \in {"splat", "ply", "ksplat"} -> "SPLAT"
      [] OTHER -> "UNKNOWN"

IsGLTF(type) == type = "VRM" \/ type = "VRMA"

\* getResource(name): resourcesMap.get(name) -> index into resources (0: null)
IndexOf(name) ==
    IF \E i \in 1..Len(resources) : resources[i].name = name
    THEN CHOOSE i \in 1..Len(resources) : resources[i].name = name
    ELSE 0

SetData(rs, name, d) ==
    [i \in 1..Len(rs) |-> IF rs[i].name = name THEN [rs[i] EXCEPT !.data = d] ELSE rs[i]]

\* ------------------------------------------------------ worker: pure parts
\* a HEAD failure reported as size 0 instead of -1
GetResourceSize_ZeroOnFailure(resp) ==
    IF resp.kind # "ok" THEN 0
    ELSE IF resp.length # -1 THEN resp.length ELSE -1

\* getResourceSize: -1 when HEAD throws, is not OK, or has no Content-Length
GetResourceSize(resp) ==
    IF resp.kind = "network_error" THEN -1
    ELSE IF resp.kind = "not_ok" THEN -1
    ELSE IF resp.length # -1 THEN resp.length ELSE -1

\* a sum that adds the raw sizes, -1 included
KnownSize_Raw(s) == s

\* initResources: only sizes > 0 are added to totalBytes
KnownSize(s) == IF s > 0 THEN s ELSE 0

\* a percentage that counts one unit too many
Percent_OffByOne(l, t) == ((l + 1) * 100) \div t

\* Math.floor((totalLoadedBytes / totalBytes) * 100)
Percent(l, t) == (l * 100) \div t

\* updateProgress: report only an increase of at least 1%
ShouldReport(progress, last) == progress > last /\ progress - last >= 1

\* a size correction that always reports
CorrectionReports_Always(progress, last) == TRUE

\* loadResource, size correction: report when the percentage changed
CorrectionReports(progress, last) == progress # last

\* loadResource, forced report: Math.max(progress, lastReportedProgress)
ForcedProgress(progress, last) == Max(progress, last)

\* a startLoading that does not look at the initialisation flag
CanStartLoading_Always(initialized) == TRUE

\* startLoading: if (!isInitialized) post ERROR and return
CanStartLoading(initialized) == initialized

WorkerNames == {a \in Names : pc[a] # "none"}

\* ------------------------------------------------- preloader: pure parts
\* a load() that may be called in any status
CanLoad_Always(st) == TRUE

\* a load() that is refused only while a session is running
CanLoad_NotLoading(st) == st # "loading"

\* load(): the status check
CanLoad(st) == st = "pending"

\* a load() without the shortcut for an empty table
NoResources_Never(rs) == FALSE

\* load(): this.resources.length === 0
NoResources(rs) == Len(rs) = 0

\* a gate that waits for one delivery more than there are assets
AllResourcesLoaded_Beyond(cnt, total, pending) == cnt > total /\ pending = {}

\* a gate that looks at the pending decodes only
AllResourcesLoaded_PendingOnly(cnt, total, pending) == pending = {}

\* checkAllResourcesLoaded: the double gate
AllResourcesLoaded(cnt, total, pending) == cnt = total /\ pending = {}

\* ------------------------------------------------------ Avatar: pure parts
\* calculateTotalProgress
CalculateTotalProgress(prev, res, scene, wait) ==
    Max(prev, (res * RESOURCE_LOADING_WEIGHT + scene * SCENE_RENDERING_WEIGHT
               + wait * FORCE_WAIT_WEIGHT) \div 100)

\* updateTotalProgress: preloadProgress only moves when the total is larger
UpdateTotalProgress(prev, res, scene, wait) ==
    LET t == CalculateTotalProgress(prev, res, scene, wait)
    IN IF t > prev THEN t ELSE prev

\* ------------------------------------------------ VrmController: pure parts
ClipNames == {"idle", "wave"}

\* The mixers are named by their age: the mixer of this._animationMixer is
\* CurrentMixer, and every mixer an earlier setVRM made is StaleMixer (no
\* update() reaches a stale mixer, so the stale ones need not be told apart)
CurrentMixer == 1
StaleMixer == 2

\* no AnimationAction under a name (mixer 0)
NoAction == [mixer |-> 0, running |-> FALSE, loop |-> FALSE, paused |-> FALSE,
             fade |-> "none", time |-> 0, play |-> 0]

\* mixer.clipAction(clip): a new action of the given mixer, not scheduled
NewAction(m) == [NoAction EXCEPT !.mixer = m]

NoEvent == [kind |-> "none", play |-> 0]

NoCall == [op |-> "none", name |-> "none", result |-> "none"]

\* no callback of playAction waits for an animation frame. outer: the
\* callbacks playAction passed to requestAnimationFrame; inner: the ones
\* those passed in their turn, which reset the spring bones
NoCallbacks == [outer |-> 0, inner |-> 0]

\* playAction: options.resetSpringBones || transition === 0
SchedulesReset(transition, resetSpringBones) == resetSpringBones \/ transition = 0

\* a frame whose first callbacks already reset the spring bones
ResetsDue_FirstFrame(callbacks) == callbacks.outer

\* the resets an animation frame runs: those of the inner callbacks
ResetsDue(callbacks) == callbacks.inner

\* a lookup that finds every name
HasAction_Always(acts, name) == TRUE

\* hasAction(name): this._actions.has(name)
HasAction(acts, name) == acts[name].mixer # 0

\* a playAction that never takes the clip for the active one
IsActive_Never(active, name) == FALSE

\* playAction: this._activeActionName === name
IsActive(active, name) == active = name

\* this._actions.get(active)?.fadeOut(transition): the weight of the active
\* action, if it is registered, starts to fade to 0
FadeOutActive(acts, active) ==
    IF active # "none" /\ acts[active].mixer # 0
    THEN [acts EXCEPT ![active].fade = "out"]
    ELSE acts

\* action.reset(); setLoop; time = startTime; paused = false; play();
\* fadeIn(transition), for the playback p
Restarted(a, loop, p) ==
    [a EXCEPT !.running = TRUE, !.loop = loop, !.paused = FALSE, !.fade = "in",
              !.time = 0, !.play = p]

\* an action that is not stopped
Stopped_Not(a) == a

\* action.stop(): the action leaves the schedule of its mixer and is reset
Stopped(a) ==
    [a EXCEPT !.running = FALSE, !.paused = FALSE, !.fade = "none", !.time = 0]

\* new THREE.AnimationMixer(...): the actions of the mixer it replaces stay
\* bound to that mixer
Aged(a) == IF a.mixer = CurrentMixer THEN [a EXCEPT !.mixer = StaleMixer] ELSE a

\* ------------------------------------------ VrmController: time and faces
\* Times are counted in units of 25 ms and weights in thousandths
TimeUnitsPerSecond == 40
One == 1000
BlinkDuration == (15 * TimeUnitsPerSecond) \div 100       \* _blinkDuration = 0.15
BlinkIntervalMin == 2 * TimeUnitsPerSecond                \* _blinkIntervalMin = 2.0
BlinkIntervalMax == 6 * TimeUnitsPerSecond                \* _blinkIntervalMax = 6.0
ResetSpringBoneDeltaThreshold == TimeUnitsPerSecond \div 2  \* 0.5
LongDelta == 21                      \* a frame longer than the threshold
\* the deltas of a frame: 25 ms, 50 ms and a long one
Deltas == {1, 2, LongDelta}
\* Math.random() in [0, 1), as the offset it gives into the interval range
Randoms == {0, 1, (BlinkIntervalMax - BlinkIntervalMin) \div 2,
            BlinkIntervalMax - BlinkIntervalMin - 1}

BlinkChannels == {"blink", "blinkLeft", "blinkRight"}
EmotionChannels == {"Angry", "Happy", "Relaxed", "Sad", "Surprised"}
Channels == BlinkChannels \cup EmotionChannels \cup {"neutral"}
NoValue == -1
\* the weights a host sets
Weights == {0, One \div 2, One}

\* rigs: with every expression, without Surprised, without neutral, and
\* without an expression manager
FullRig == [manager |-> TRUE, channels |-> Channels]
Rigs == {FullRig,
         [manager |-> TRUE, channels |-> Channels \ {"Surprised"}],
         [manager |-> TRUE, channels |-> Channels \ {"neutral"}],
         [manager |-> FALSE, channels |-> {}]}

\* no update(delta) was just made
NoUpdate == [blink |-> "none", accum |-> 0, paused |-> FALSE, long |-> FALSE,
             reset |-> FALSE]

\* _resetBlinkTimer: min + Math.random() * (max - min)
ResetInterval(r) == BlinkIntervalMin + r

\* Math.sin((progress / duration) * Math.PI) at the sixths of the duration
SineOfSixth == <<0, 500, 866, 1000, 866, 500, 0>>
BlinkValue(progress) == SineOfSixth[progress + 1]

\* a blink that ends one step late
BlinkEnds_Late(progress) == progress > BlinkDuration

\* _updateAutoBlink: this._blinkProgress >= this._blinkDuration
BlinkEnds(progress) == progress >= BlinkDuration

\* expressionManager.setValue(name, v): no effect on an expression the rig
\* does not have
SetValue(ev, name, v) == IF ev[name] = NoValue THEN ev ELSE [ev EXCEPT ![name] = v]

SetBlink(ev, v) ==
    SetValue(SetValue(SetValue(ev, "blink", v), "blinkLeft", v), "blinkRight", v)

\* getValue(name) || 0
OrZero(v) == IF v = NoValue THEN 0 ELSE v

\* a sum that leaves Surprised out
EmotionSum_NoSurprised(ev) ==
    OrZero(ev["Angry"]) + OrZero(ev["Happy"]) + OrZero(ev["Relaxed"]) + OrZero(ev["Sad"])

\* angry + happy + relaxed + sad + surprised
EmotionSum(ev) ==
    OrZero(ev["Angry"]) + OrZero(ev["Happy"]) + OrZero(ev["Relaxed"])
        + OrZero(ev["Sad"]) + OrZero(ev["Surprised"])

\* _updateBlendShapeNeutral
UpdateBlendShapeNeutral(mgr, ev) ==
    IF ~mgr \/ ev["neutral"] = NoValue THEN ev
    ELSE SetValue(ev, "neutral", Max(0, One - EmotionSum(ev)))

\* ------------------------------------------------- Avatar.vue: compositor
INITIAL_RENDER_FRAME_COUNT == 60
\* positions are counted in units of cameraMoveThreshold (0.001) and angles
\* in units of cameraRotateThreshold (0.01 rad), along one axis
CameraMoveThreshold == 1
CameraRotateThreshold == 1
Poses == [position : 0..2, rotation : 0..2]
\* new THREE.Vector3() and new THREE.Quaternion()
Origin == [position |-> 0, rotation |-> 0]
Far == [position |-> 2, rotation |-> 0]
NoResume == -1
NoFrame == [kind |-> "none", delta |-> 0, background |-> FALSE, forced |-> FALSE,
            moved |-> FALSE, updated |-> FALSE, afterResume |-> FALSE,
            pausedFor |-> 0, passes |-> <<>>]

\* distanceTo / angleTo along the axis
Distance(a, b) == IF a > b THEN a - b ELSE b - a

\* a comparison that takes the threshold itself for a move
Exceeds_OrEqual(d, threshold) == d >= threshold

Exceeds(d, threshold) == d > threshold

\* a detection that looks at the position only
HasCameraMoved_PositionOnly(pose, snapshot) ==
    Exceeds(Distance(pose.position, snapshot.position), CameraMoveThreshold)

\* hasCameraMoved(): positionMoved || rotationMoved
HasCameraMoved(pose, snapshot) ==
    \/ Exceeds(Distance(pose.position, snapshot.position), CameraMoveThreshold)
    \/ Exceeds(Distance(pose.rotation, snapshot.rotation), CameraRotateThreshold)

\* a burst that does not wait for the viewer
ForceInitialRender_Unready(ready, frames) == frames < INITIAL_RENDER_FRAME_COUNT

\* animate(): forceInitialRender
ForceInitialRender(ready, frames) == ready /\ frames < INITIAL_RENDER_FRAME_COUNT

\* a frame that renders the humanoid scene only along with the environment
RenderPasses_WithEnvironment(need) ==
    IF need THEN <<"environment", "humanoid">> ELSE <<>>

\* animate(): the calls of renderer.render in an unpaused frame, in order:
\* backgroundScene into backgroundRenderTarget if needUpdateBackground, then
\* vrmScene onto the canvas
RenderPasses(need) ==
    IF need THEN <<"environment", "humanoid">> ELSE <<"humanoid">>

\* a resume that does not read the clock
ResumeClock_Kept(e) == e

\* clock.getDelta() in resume() and onVisibilityChange: the time elapsed so
\* far is discarded
ResumeClock(e) == 0

\* update(delta): the delta handed to the mixer is 0 while the active action
\* is paused
ActivePaused ==
    /\ activeActionName # "none"
    /\ actions[activeActionName].mixer # 0
    /\ actions[activeActionName].paused

\* update(delta) reaches this._animationMixer.update with a positive delta
MixerAdvances == vrm # 0 /\ animationMixer # 0 /\ ~ActivePaused

\* ------------------------------------------------------------------- Init
Init ==
    /\ resources = <<>>
    /\ status = "pending"
    /\ worker = FALSE
    /\ loadedResourcesCount = 0
    /\ totalResourcesCount = 0
    /\ pendingGLTFLoads = {}
    /\ workerInitialized = FALSE
    /\ inbox = <<>>
    /\ chan = <<>>
    /\ pc = [a \in Names |-> "none"]
    /\ size = [a \in Names |-> 0]
    /\ loaded = [a \in Names |-> 0]
    /\ totalBytes = 0
    /\ totalLoadedBytes = 0
    /\ lastReportedProgress = 0
    /\ isInitialized = FALSE
    /\ loadSettled = FALSE
    /\ resourceProgress = 0
    /\ sceneRenderingProgress = 0
    /\ forceWaitProgress = 0
    /\ preloadProgress = 0
    /\ avatarPhase = "loading"
    /\ headResp = [a \in Names |-> [kind |-> "none", length |-> -1]]
    /\ delivered = {}
    /\ allCompletedSeen = FALSE
    /\ decodeFailed = {}
    /\ progressLast = -1
    /\ count100 = 0
    /\ completedCount = 0
    /\ errorCount = 0
    /\ completedBy = "none"
    /\ loadThrown = 0
    /\ clientSent = {}
    /\ vrm = 0
    /\ animationMixer = 0
    /\ orphanRunning = FALSE
    /\ actions = [n \in ClipNames |-> NoAction]
    /\ activeActionName = "none"
    /\ listeners = {}
    /\ plays = <<>>
    /\ lastCall = NoCall
    /\ lastEvent = NoEvent
    /\ firedNow = {}
    /\ lastUpdate = NoUpdate
    /\ frameCallbacks = NoCallbacks
    /\ springBoneResets = 0
    /\ autoBlinkEnabled = FALSE
    /\ blinkTimer = 0
    \* the constructor draws an interval; enableAutoBlink draws again before
    \* any update reads it
    /\ nextBlinkTime = BlinkIntervalMin
    /\ isBlinking = FALSE
    /\ blinkProgress = 0
    /\ blinkPeak = 0
    /\ expressionManager = FALSE
    /\ expressionValue = [c \in Channels |-> NoValue]
    /\ animating = FALSE
    /\ isPaused = FALSE
    /\ needUpdateBackground = TRUE
    /\ initialRenderFrames = 0
    /\ gaussianSplatReady = FALSE
    /\ splatRenderReady = FALSE
    /\ cameraPose = Origin
    /\ cameraState = Origin
    /\ elapsed = 0
    /\ sinceResume = NoResume
    /\ pausedFor = 0
    /\ lastFrame = NoFrame
    /\ released = <<>>
    /\ hidden = FALSE
    /\ hostPaused = FALSE
    /\ backgroundPose = Origin

\* ------------------------------------------------------ event dispatching
\* dispatchEvent(PROGRESS) and the Avatar PROGRESS listener
EmitProgress(p) ==
    /\ progressLast' = p
    /\ count100' = IF p = 100 THEN count100 + 1 ELSE count100
    /\ resourceProgress' = p
    /\ preloadProgress' = UpdateTotalProgress(preloadProgress, p,
                              sceneRenderingProgress, forceWaitProgress)

NoProgress == UNCHANGED <<progressLast, count100, resourceProgress, preloadProgress>>

\* dispatchEvent(COMPLETED) and the Avatar COMPLETED listener registered in
\* onMounted, which awaits viewer.addSplatScenes
EmitCompleted ==
    /\ completedCount' = completedCount + 1
    /\ avatarPhase' = IF avatarPhase = "loading" THEN "addingSplat" ELSE avatarPhase

NoCompleted == UNCHANGED <<completedCount, avatarPhase>>

\* checkAllResourcesLoaded, evaluated on the updated counters; q is the
\* content of the worker -> main port if the worker is not terminated here
CheckAllResourcesLoaded(cnt, pending, q, by) ==
    IF AllResourcesLoaded(cnt, totalResourcesCount, pending)
    THEN /\ status' = "completed"
         /\ completedBy' = by
         /\ EmitProgress(100)
         /\ EmitCompleted
         /\ worker' = FALSE
         /\ chan' = IF worker THEN <<>> ELSE q
         /\ inbox' = IF worker THEN <<>> ELSE inbox
    ELSE /\ NoProgress
         /\ NoCompleted
         /\ chan' = q
         /\ UNCHANGED <<status, worker, inbox, completedBy>>

\* ------------------------------------------------- PreloaderWithWorker API
\* add(resource): no status check
add(name, ext) ==
    /\ name \notin RegisteredNames
    /\ name = NameOrder[Len(resources) + 1]
    /\ resources' = Append(resources,
                           [name |-> name, type |-> TypeOfExtension(ext), data |-> "none"])
    /\ UNCHANGED <<status, worker, loadedResourcesCount, totalResourcesCount,
                   pendingGLTFLoads, workerInitialized>>
    /\ UNCHANGED <<portVars, workerVars, avatarVars, obsVars>>
    /\ UNCHANGED <<ctlVars, vrmVars, compVars>>

\* load() with no resource: synchronous `completed`; the Avatar listener that
\* starts the scene is registered only after load() returned
loadEmpty ==
    /\ CanLoad(status)
    /\ NoResources(resources)
    /\ status' = "completed"
    /\ completedCount' = completedCount + 1
    /\ completedBy' = "load"
    /\ UNCHANGED <<resources, worker, loadedResourcesCount, totalResourcesCount,
                   pendingGLTFLoads, workerInitialized>>
    /\ UNCHANGED <<portVars, workerVars, avatarVars>>
    /\ UNCHANGED <<headResp, delivered, allCompletedSeen, decodeFailed, progressLast,
                   count100, errorCount>>
    /\ UNCHANGED <<ctlVars, vrmVars, compVars>>

\* load(): create the worker, post INIT
load ==
    /\ CanLoad(status)
    /\ ~NoResources(resources)
    /\ worker' = TRUE
    /\ status' = "loading"
    /\ loadedResourcesCount' = 0
    /\ totalResourcesCount' = Len(resources)
    /\ pendingGLTFLoads' = {}
    /\ workerInitialized' = FALSE
    /\ inbox' = Append(inbox, [type |-> "INIT", resources |-> RegisteredNames])
    /\ UNCHANGED <<resources, chan>>
    /\ UNCHANGED <<workerVars, avatarVars, obsVars>>
    /\ UNCHANGED <<ctlVars, vrmVars, compVars>>

\* load() in a status other than PENDING: throws before anything is touched
loadRejected ==
    /\ ~CanLoad(status)
    /\ loadThrown < MaxLoadRejects
    /\ loadThrown' = loadThrown + 1
    /\ UNCHANGED clientSent
    /\ UNCHANGED <<mainVars, portVars, workerVars, avatarVars, obsVars, vrmVars, compVars>>

\* dispose(): terminate the worker; undelivered messages are dropped
PreloaderDispose ==
    /\ IF worker
       THEN /\ worker' = FALSE
            /\ chan' = <<>>
            /\ inbox' = <<>>
       ELSE UNCHANGED <<worker, chan, inbox>>
    /\ UNCHANGED <<resources, status, loadedResourcesCount, totalResourcesCount,
                   pendingGLTFLoads, workerInitialized>>
    /\ UNCHANGED <<workerVars, avatarVars, obsVars, ctlVars>>

\* dispose() called by a host while the worker exists
dispose ==
    /\ worker
    /\ PreloaderDispose
    /\ UNCHANGED <<vrmVars, compVars>>

\* ------------------------------------------------------ preloader.worker.ts
\* message listener, case INIT: initResources starts one HEAD per resource
workerInit ==
    /\ worker
    /\ inbox # <<>>
    /\ Head(inbox).type = "INIT"
    /\ inbox' = Tail(inbox)
    /\ pc' = [a \in Names |-> IF a \in Head(inbox).resources THEN "head" ELSE "none"]
    /\ size' = [a \in Names |-> 0]
    /\ loaded' = [a \in Names |-> 0]
    /\ totalBytes' = 0
    /\ totalLoadedBytes' = 0
    /\ lastReportedProgress' = 0
    /\ isInitialized' = FALSE
    /\ UNCHANGED <<loadSettled, chan>>
    /\ UNCHANGED <<mainVars, avatarVars, obsVars>>
    /\ UNCHANGED <<ctlVars, vrmVars, compVars>>

\* initResources: one HEAD answered; after the last one, Promise.all resolves,
\* totalBytes is summed and SIZE_READY is posted
headDone(a, resp) ==
    /\ worker
    /\ pc[a] = "head"
    /\ LET s == GetResourceSize(resp)
           size2 == [size EXCEPT ![a] = s]
           pc2 == [pc EXCEPT ![a] = "sized"]
           last == \A b \in Names : pc2[b] \in {"none", "sized"}
           sizes == [b \in Names |-> KnownSize(size2[b])]
           total == SumOver({b \in Names : pc2[b] = "sized"}, sizes)
       IN /\ size' = size2
          /\ pc' = pc2
          /\ headResp' = [headResp EXCEPT ![a] = resp]
          /\ IF last
             THEN /\ totalBytes' = total
                  /\ isInitialized' = TRUE
                  /\ chan' = Append(chan, Msg("SIZE_READY", total, ""))
             ELSE UNCHANGED <<totalBytes, isInitialized, chan>>
    /\ UNCHANGED <<loaded, totalLoadedBytes, lastReportedProgress, loadSettled, inbox>>
    /\ UNCHANGED <<mainVars, avatarVars>>
    /\ UNCHANGED <<delivered, allCompletedSeen, decodeFailed, progressLast,
                   count100, completedCount, errorCount, completedBy>>
    /\ UNCHANGED <<ctlVars, vrmVars, compVars>>

\* message listener, case START_LOAD: startLoading issues one GET per entry
startLoading ==
    /\ worker
    /\ inbox # <<>>
    /\ Head(inbox).type = "START_LOAD"
    /\ inbox' = Tail(inbox)
    /\ IF ~CanStartLoading(isInitialized)
       THEN /\ chan' = Append(chan, ErrorMsg("", "Worker not initialized"))
            /\ UNCHANGED pc
       ELSE /\ pc' = [a \in Names |-> IF pc[a] = "sized" THEN "get" ELSE pc[a]]
            /\ UNCHANGED chan
    /\ UNCHANGED <<size, loaded, totalBytes, totalLoadedBytes, lastReportedProgress,
                   isInitialized, loadSettled>>
    /\ UNCHANGED <<mainVars, avatarVars, obsVars>>
    /\ UNCHANGED <<ctlVars, vrmVars, compVars>>

\* loadResource: the GET response arrived with status OK; len is its
\* Content-Length (-1: none). A size unknown since HEAD is corrected here.
getResponse(a, len) ==
    /\ worker
    /\ pc[a] = "get"
    /\ pc' = [pc EXCEPT ![a] = "read"]
    /\ IF size[a] = -1 /\ len # -1
       THEN LET total == totalBytes + len
                progress == IF total > 0 THEN Percent(totalLoadedBytes, total) ELSE 0
                report == total > 0 /\ CorrectionReports(progress, lastReportedProgress)
            IN /\ size' = [size EXCEPT ![a] = len]
               /\ totalBytes' = total
               /\ lastReportedProgress' = IF report THEN progress ELSE lastReportedProgress
               /\ chan' = IF report THEN Append(chan, Msg("PROGRESS", progress, "")) ELSE chan
       ELSE UNCHANGED <<size, totalBytes, lastReportedProgress, chan>>
    /\ UNCHANGED <<loaded, totalLoadedBytes, isInitialized, loadSettled, inbox>>
    /\ UNCHANGED <<mainVars, avatarVars, obsVars>>
    /\ UNCHANGED <<ctlVars, vrmVars, compVars>>

\* loadResource: one chunk of c units read; updateProgress(c)
readChunk(a, c) ==
    /\ worker
    /\ pc[a] = "read"
    /\ c >= 1
    /\ loaded' = [loaded EXCEPT ![a] = loaded[a] + c]
    /\ totalLoadedBytes' = totalLoadedBytes + c
    /\ LET progress == IF totalBytes > 0 THEN Percent(totalLoadedBytes + c, totalBytes) ELSE 0
           report == totalBytes > 0 /\ ShouldReport(progress, lastReportedProgress)
       IN /\ lastReportedProgress' = IF report THEN progress ELSE lastReportedProgress
          /\ chan' = IF report THEN Append(chan, Msg("PROGRESS", progress, "")) ELSE chan
    /\ UNCHANGED <<pc, size, totalBytes, isInitialized, loadSettled, inbox>>
    /\ UNCHANGED <<mainVars, avatarVars, obsVars>>
    /\ UNCHANGED <<ctlVars, vrmVars, compVars>>

\* loadResource: the body ended; forced progress report, RESOURCE_LOADED, and
\* ALL_COMPLETED when this was the last load of a batch without failure
readDone(a) ==
    /\ worker
    /\ pc[a] = "read"
    /\ LET unknown == size[a] = -1
           total == IF unknown THEN totalBytes + loaded[a] ELSE totalBytes
           progress == IF total > 0 THEN Percent(totalLoadedBytes, total) ELSE 0
           forced == ForcedProgress(progress, lastReportedProgress)
           pc2 == [pc EXCEPT ![a] = "done"]
           allDone == \A b \in Names : pc2[b] \in {"none", "done"}
           m1 == IF total > 0 THEN <<Msg("PROGRESS", forced, "")>> ELSE <<>>
           m2 == <<Msg("RESOURCE_LOADED", 0, a)>>
           m3 == IF allDone THEN <<Msg("ALL_COMPLETED", 100, "")>> ELSE <<>>
       IN /\ size' = IF unknown THEN [size EXCEPT ![a] = loaded[a]] ELSE size
          /\ totalBytes' = total
          /\ lastReportedProgress' = IF total > 0 THEN forced ELSE lastReportedProgress
          /\ pc' = pc2
          /\ chan' = chan \o m1 \o m2 \o m3
    /\ UNCHANGED <<loaded, totalLoadedBytes, isInitialized, loadSettled, inbox>>
    /\ UNCHANGED <<mainVars, avatarVars, obsVars>>
    /\ UNCHANGED <<ctlVars, vrmVars, compVars>>

\* loadResource: the GET failed (network error, non-OK status) or a read
\* failed: ERROR with the resource name, then the rethrow rejects
\* Promise.all once and startLoading posts a second ERROR
loadFail(a) ==
    /\ worker
    /\ pc[a] \in {"get", "read"}
    /\ pc' = [pc EXCEPT ![a] = "failed"]
    /\ chan' = chan \o <<ErrorMsg(a, "load failed")>>
                    \o (IF loadSettled THEN <<>> ELSE <<ErrorMsg("", "load failed")>>)
    /\ loadSettled' = TRUE
    /\ UNCHANGED <<size, loaded, totalBytes, totalLoadedBytes, lastReportedProgress,
                   isInitialized, inbox>>
    /\ UNCHANGED <<mainVars, avatarVars, obsVars>>
    /\ UNCHANGED <<ctlVars, vrmVars, compVars>>

\* message listener, case CANCEL: posts ERROR 'Load cancelled'; the loads in
\* flight are not touched
workerCancel ==
    /\ worker
    /\ inbox # <<>>
    /\ Head(inbox).type = "CANCEL"
    /\ inbox' = Tail(inbox)
    /\ chan' = Append(chan, ErrorMsg("", "Load cancelled"))
    /\ UNCHANGED <<mainVars, workerVars, avatarVars, obsVars, ctlVars, vrmVars, compVars>>

\* ------------------------------------------ the worker's message interface
\* WorkerMessage admits INIT, START_LOAD and CANCEL at any time. A holder of
\* the worker other than PreloaderWithWorker creates it and posts INIT; it
\* does not read the answers, so chan keeps every message the worker posted
clientInit(rs) ==
    /\ status = "pending"
    /\ ~worker
    /\ clientSent = {}
    /\ rs # {}
    /\ worker' = TRUE
    /\ inbox' = Append(inbox, [type |-> "INIT", resources |-> rs])
    /\ clientSent' = {"INIT"}
    /\ UNCHANGED <<resources, status, loadedResourcesCount, totalResourcesCount,
                   pendingGLTFLoads, workerInitialized, chan, loadThrown>>
    /\ UNCHANGED <<workerVars, avatarVars, obsVars, vrmVars, compVars>>

\* the holder posts START_LOAD or CANCEL, each once, at any moment
clientPost(t) ==
    /\ worker
    /\ "INIT" \in clientSent
    /\ t \notin clientSent
    /\ inbox' = Append(inbox, [type |-> t, resources |-> {}])
    /\ clientSent' = clientSent \cup {t}
    /\ UNCHANGED <<mainVars, chan, loadThrown>>
    /\ UNCHANGED <<workerVars, avatarVars, obsVars, vrmVars, compVars>>

\* ------------------------------------------- PreloaderWithWorker: messages
\* handleWorkerMessage, one message of the worker
handleWorkerMessage ==
    /\ worker
    /\ chan # <<>>
    /\ LET m == Head(chan)
           rest == Tail(chan)
       IN CASE m.type = "PROGRESS" ->
                 /\ EmitProgress(m.progress)
                 /\ chan' = rest
                 /\ UNCHANGED <<mainVars, inbox, avatarPhase, sceneRenderingProgress,
                                forceWaitProgress>>
                 /\ UNCHANGED <<delivered, allCompletedSeen, completedCount, errorCount,
                                completedBy>>
            [] m.type = "RESOURCE_LOADED" ->
                 /\ chan' = rest
                 /\ delivered' = delivered \cup {m.name}
                 /\ IF IndexOf(m.name) = 0
                    THEN UNCHANGED <<resources, pendingGLTFLoads, loadedResourcesCount>>
                    ELSE IF IsGLTF(resources[IndexOf(m.name)].type)
                         THEN /\ pendingGLTFLoads' = pendingGLTFLoads \cup {m.name}
                              /\ UNCHANGED <<resources, loadedResourcesCount>>
                         ELSE /\ resources' = SetData(resources, m.name, "buffer")
                              /\ loadedResourcesCount' = loadedResourcesCount + 1
                              /\ UNCHANGED pendingGLTFLoads
                 /\ UNCHANGED <<status, worker, totalResourcesCount, workerInitialized, inbox>>
                 /\ UNCHANGED <<avatarVars, allCompletedSeen, progressLast, count100,
                                completedCount, errorCount, completedBy>>
            [] m.type = "ALL_COMPLETED" ->
                 /\ allCompletedSeen' = TRUE
                 /\ CheckAllResourcesLoaded(loadedResourcesCount, pendingGLTFLoads, rest, "message")
                 /\ UNCHANGED <<resources, loadedResourcesCount, totalResourcesCount,
                                pendingGLTFLoads, workerInitialized>>
                 /\ UNCHANGED <<sceneRenderingProgress, forceWaitProgress, delivered,
                                errorCount>>
            [] m.type = "ERROR" ->
                 /\ status' = "error"
                 /\ errorCount' = errorCount + 1
                 /\ worker' = FALSE
                 /\ chan' = <<>>
                 /\ inbox' = <<>>
                 /\ UNCHANGED <<resources, loadedResourcesCount, totalResourcesCount,
                                pendingGLTFLoads, workerInitialized>>
                 /\ UNCHANGED <<avatarVars, delivered, allCompletedSeen, progressLast,
                                count100, completedCount, completedBy>>
            [] m.type = "SIZE_READY" ->
                 /\ workerInitialized' = TRUE
                 /\ chan' = rest
                 /\ inbox' = Append(inbox, [type |-> "START_LOAD", resources |-> {}])
                 /\ UNCHANGED <<resources, status, worker, loadedResourcesCount,
                                totalResourcesCount, pendingGLTFLoads>>
                 /\ UNCHANGED <<avatarVars, delivered, allCompletedSeen, progressLast,
                                count100, completedCount, errorCount, completedBy>>
    /\ UNCHANGED <<workerVars, headResp, decodeFailed>>
    /\ UNCHANGED <<ctlVars, vrmVars, compVars>>

\* loadGLTFFromBuffer(...).then: the main-thread decode resolved
decodeResolve(a) ==
    /\ a \in pendingGLTFLoads
    /\ pendingGLTFLoads' = pendingGLTFLoads \ {a}
    /\ loadedResourcesCount' = loadedResourcesCount + 1
    /\ resources' = SetData(resources, a, "gltf")
    /\ CheckAllResourcesLoaded(loadedResourcesCount + 1, pendingGLTFLoads \ {a}, chan,
                               "decode")
    /\ UNCHANGED <<totalResourcesCount, workerInitialized>>
    /\ UNCHANGED <<workerVars, sceneRenderingProgress, forceWaitProgress>>
    /\ UNCHANGED <<headResp, delivered, allCompletedSeen, decodeFailed, errorCount>>
    /\ UNCHANGED <<ctlVars, vrmVars, compVars>>

\* loadGLTFFromBuffer(...).catch: the decode was rejected
decodeReject(a) ==
    /\ a \in pendingGLTFLoads
    /\ pendingGLTFLoads' = pendingGLTFLoads \ {a}
    /\ errorCount' = errorCount + 1
    /\ decodeFailed' = decodeFailed \cup {a}
    /\ UNCHANGED <<resources, status, worker, loadedResourcesCount, totalResourcesCount,
                   workerInitialized>>
    /\ UNCHANGED <<portVars, workerVars, avatarVars>>
    /\ UNCHANGED <<headResp, delivered, allCompletedSeen, progressLast, count100,
                   completedCount, completedBy>>
    /\ UNCHANGED <<ctlVars, vrmVars, compVars>>

\* ------------------------------------------------ Avatar.vue: load phases
\* COMPLETED listener after `await viewer.addSplatScenes`: the first
\* updateRenderProgress runs with no time elapsed
splatAdded ==
    /\ avatarPhase = "addingSplat"
    /\ avatarPhase' = "render"
    /\ sceneRenderingProgress' = 0
    /\ preloadProgress' = UpdateTotalProgress(preloadProgress, resourceProgress,
                                              0, forceWaitProgress)
    /\ UNCHANGED <<resourceProgress, forceWaitProgress>>
    /\ UNCHANGED <<mainVars, portVars, workerVars, obsVars>>
    /\ UNCHANGED <<ctlVars, vrmVars, compVars>>

\* COMPLETED listener, catch: addSplatScenes failed
splatFailed ==
    /\ avatarPhase = "addingSplat"
    /\ avatarPhase' = "error"
    /\ UNCHANGED <<resourceProgress, sceneRenderingProgress, forceWaitProgress,
                   preloadProgress>>
    /\ UNCHANGED <<mainVars, portVars, workerVars, obsVars>>
    /\ UNCHANGED <<ctlVars, vrmVars, compVars>>

\* updateRenderProgress on an animation frame; at 100 startForceWait runs
\* updateWaitProgress at once, with no time elapsed
renderTick(v) ==
    /\ avatarPhase = "render"
    /\ v >= sceneRenderingProgress
    /\ sceneRenderingProgress' = v
    /\ IF v < 100
       THEN /\ preloadProgress' = UpdateTotalProgress(preloadProgress, resourceProgress,
                                                      v, forceWaitProgress)
            /\ UNCHANGED <<forceWaitProgress, avatarPhase>>
       ELSE /\ forceWaitProgress' = 0
            /\ preloadProgress' =
                   UpdateTotalProgress(
                       UpdateTotalProgress(preloadProgress, resourceProgress, v,
                                           forceWaitProgress),
                       resourceProgress, v, 0)
            /\ avatarPhase' = "wait"
    /\ UNCHANGED resourceProgress
    /\ UNCHANGED <<mainVars, portVars, workerVars, obsVars>>
    /\ UNCHANGED <<ctlVars, vrmVars, compVars>>

\* updateWaitProgress on an animation frame; at 100 the progress is set to
\* 100 and `loaded` / `ready` are emitted
waitTick(w) ==
    /\ avatarPhase = "wait"
    /\ w >= forceWaitProgress
    /\ forceWaitProgress' = w
    /\ LET p == UpdateTotalProgress(preloadProgress, resourceProgress,
                                    sceneRenderingProgress, w)
       IN IF w < 100
          THEN /\ preloadProgress' = p
               /\ UNCHANGED avatarPhase
          ELSE /\ preloadProgress' = 100
               /\ avatarPhase' = "ready"
    /\ UNCHANGED <<resourceProgress, sceneRenderingProgress>>
    /\ UNCHANGED <<mainVars, portVars, workerVars, obsVars>>
    /\ UNCHANGED <<ctlVars, vrmVars, compVars>>

\* ------------------------------------------------ VrmController: animation
Call(op, name, result) == [op |-> op, name |-> name, result |-> result]

\* a call of the interface: the observations of the last mixer event are
\* cleared
NoMixerEvent ==
    /\ lastEvent' = NoEvent
    /\ firedNow' = {}
    /\ lastUpdate' = NoUpdate

\* a call other than playAction: the observations are cleared
OtherCall ==
    /\ NoMixerEvent
    /\ lastCall' = NoCall

\* playAction(name, {loop, transition, resetSpringBones, onFinished,
\* onLoop}): both callbacks are passed
PlayAction(name, loop, transition, resetSpringBones) ==
    /\ NoMixerEvent
    /\ IF vrm = 0 \/ animationMixer = 0
       THEN /\ lastCall' = Call("playAction", name, "returned")
            /\ UNCHANGED <<actions, activeActionName, listeners, plays, frameCallbacks>>
       ELSE IF ~HasAction(actions, name)
       THEN /\ lastCall' = Call("playAction", name, "threw")
            /\ UNCHANGED <<actions, activeActionName, listeners, plays, frameCallbacks>>
       ELSE IF IsActive(activeActionName, name)
       THEN /\ lastCall' = Call("playAction", name, "returned")
            /\ UNCHANGED <<actions, activeActionName, listeners, plays, frameCallbacks>>
       ELSE /\ Len(plays) < MaxPlays
            /\ LET p == Len(plays) + 1
                   faded == FadeOutActive(actions, activeActionName)
               IN /\ plays' = Append(plays, [name |-> name, mixer |-> animationMixer])
                  /\ listeners' = listeners \cup {<<p, "finished">>, <<p, "loop">>}
                  /\ IF faded[name].mixer = 0
                     THEN \* const action = this._actions.get(name); if (!action) return
                          /\ actions' = faded
                          /\ UNCHANGED <<activeActionName, frameCallbacks>>
                          /\ lastCall' = Call("playAction", name, "returned")
                     ELSE /\ actions' = [faded EXCEPT ![name] = Restarted(faded[name], loop, p)]
                          /\ activeActionName' = name
                          /\ frameCallbacks' =
                                IF SchedulesReset(transition, resetSpringBones)
                                THEN [frameCallbacks EXCEPT !.outer = @ + 1]
                                ELSE frameCallbacks
                          /\ lastCall' = Call("playAction", name, "started")
    /\ UNCHANGED <<vrm, animationMixer, orphanRunning, springBoneResets>>
    /\ UNCHANGED <<preloadVars, compVars, blinkVars, exprVars>>

\* const transition = options.transition !== undefined ? options.transition : 0.5
DefaultTransition == TimeUnitsPerSecond \div 2

\* playAction(name, {loop, onFinished, onLoop}): the transition takes the
\* default and no reset of the spring bones is asked for
playAction(name, loop) == PlayAction(name, loop, DefaultTransition, FALSE)

\* an animation frame of the browser: the callbacks playAction passed to
\* requestAnimationFrame run; the outer ones pass the inner ones, the inner
\* ones reset the spring bones of the rig playAction was called with
animationFrame ==
    /\ frameCallbacks # NoCallbacks
    /\ frameCallbacks' = [outer |-> 0, inner |-> frameCallbacks.outer]
    /\ springBoneResets' = springBoneResets + ResetsDue(frameCallbacks)
    /\ OtherCall
    /\ UNCHANGED <<vrm, animationMixer, orphanRunning, actions, activeActionName,
                   listeners, plays>>
    /\ UNCHANGED <<preloadVars, compVars, blinkVars, exprVars>>

\* endAction()
endAction ==
    /\ OtherCall
    /\ actions' = FadeOutActive(actions, activeActionName)
    /\ activeActionName' = "none"
    /\ UNCHANGED <<vrm, animationMixer, orphanRunning, listeners, plays>>
    /\ UNCHANGED <<preloadVars, compVars, springVars, blinkVars, exprVars>>

\* pauseAction() (paused = TRUE) and resumeAction() (paused = FALSE)
setPaused(b) ==
    /\ OtherCall
    /\ actions' = IF activeActionName # "none" /\ actions[activeActionName].mixer # 0
                  THEN [actions EXCEPT ![activeActionName].paused = b]
                  ELSE actions
    /\ UNCHANGED <<vrm, animationMixer, orphanRunning, activeActionName, listeners, plays>>
    /\ UNCHANGED <<preloadVars, compVars, springVars, blinkVars, exprVars>>

\* registerVRMAnimation(name, animation): an action registered under the
\* name is stopped and deleted first
registerVRMAnimation(name) ==
    /\ NoMixerEvent
    /\ IF vrm = 0 \/ animationMixer = 0
       THEN /\ lastCall' = Call("registerVRMAnimation", name, "returned")
            /\ UNCHANGED <<actions, orphanRunning>>
       ELSE /\ lastCall' = Call("registerVRMAnimation", name,
                                IF HasAction(actions, name) THEN "replaced"
                                ELSE "registered")
            /\ orphanRunning' = (orphanRunning \/ Stopped(actions[name]).running)
            /\ actions' = [actions EXCEPT ![name] = NewAction(animationMixer)]
    /\ UNCHANGED <<vrm, animationMixer, activeActionName, listeners, plays>>
    /\ UNCHANGED <<preloadVars, compVars, springVars, blinkVars, exprVars>>

\* unregisterVRMAnimation(name): action.stop() and delete, or throw
unregisterVRMAnimation(name) ==
    /\ OtherCall
    /\ IF actions[name].mixer # 0
       THEN /\ actions' = [actions EXCEPT ![name] = NoAction]
            /\ orphanRunning' = (orphanRunning \/ Stopped(actions[name]).running)
       ELSE UNCHANGED <<actions, orphanRunning>>   \* throws
    /\ UNCHANGED <<vrm, animationMixer, activeActionName, listeners, plays>>
    /\ UNCHANGED <<preloadVars, compVars, springVars, blinkVars, exprVars>>

\* unregisterAllAction()
unregisterAllAction ==
    /\ OtherCall
    /\ actions' = [n \in ClipNames |-> NoAction]
    /\ orphanRunning' = (orphanRunning \/ \E n \in ClipNames : Stopped(actions[n]).running)
    /\ UNCHANGED <<vrm, animationMixer, activeActionName, listeners, plays>>
    /\ UNCHANGED <<preloadVars, compVars, springVars, blinkVars, exprVars>>

\* clearVRM()
ControllerClearVRM ==
    /\ OtherCall
    /\ vrm' = 0
    /\ activeActionName' = "none"
    /\ UNCHANGED <<animationMixer, orphanRunning, actions, listeners, plays>>
    /\ UNCHANGED <<springVars, blinkVars, exprVars>>

\* clearVRM() called by a host
clearVRM ==
    /\ ControllerClearVRM
    /\ UNCHANGED <<preloadVars, compVars>>

\* setVRM(vrm): clearVRM(), attach the rig, new THREE.AnimationMixer; the
\* _actions map is left as it is, its actions bound to the replaced mixer
setVRM(rig) ==
    /\ NoMixerEvent
    /\ lastCall' = Call("setVRM", "none", IF vrm # 0 THEN "replaced" ELSE "attached")
    /\ vrm' = 1
    /\ animationMixer' = CurrentMixer
    /\ activeActionName' = "none"
    /\ actions' = [n \in ClipNames |-> Aged(actions[n])]
    /\ plays' = [p \in 1..Len(plays) |-> [plays[p] EXCEPT !.mixer = StaleMixer]]
    /\ UNCHANGED <<orphanRunning, listeners>>
    /\ expressionManager' = rig.manager
    /\ expressionValue' = [c \in Channels |->
                              IF rig.manager /\ c \in rig.channels THEN 0 ELSE NoValue]
    /\ UNCHANGED <<preloadVars, compVars, springVars, blinkVars>>

\* ------------------------------- VrmController.update: the mixer's events
\* the listeners of a kind on the current mixer, by playback
ListenersOf(kind) ==
    {p \in 1..Len(plays) : <<p, kind>> \in listeners /\ plays[p].mixer = animationMixer}

\* an action the current mixer advances
Advancing(n) ==
    /\ MixerAdvances
    /\ actions[n].mixer = animationMixer
    /\ actions[n].running
    /\ ~actions[n].paused

\* update(delta): the action moves on without reaching the end of the clip
clipAdvance(n) ==
    /\ Advancing(n)
    /\ actions[n].time = 0
    /\ actions' = [actions EXCEPT ![n].time = 1]
    /\ lastCall' = NoCall
    /\ lastUpdate' = NoUpdate
    /\ UNCHANGED <<vrm, animationMixer, orphanRunning, activeActionName, listeners, plays,
                   lastEvent, firedNow>>
    /\ UNCHANGED <<preloadVars, compVars, springVars, blinkVars, exprVars>>

\* update(delta): a LoopOnce action reaches its end; it is clamped (paused)
\* and the mixer dispatches 'finished' to every listener: each onFinished
\* removes its two listeners, calls endAction() and the callback
clipFinished(n) ==
    /\ Advancing(n)
    /\ ~actions[n].loop
    /\ LET fired == ListenersOf("finished")
           clamped == [actions EXCEPT ![n].paused = TRUE, ![n].time = 1]
       IN /\ listeners' = listeners \ {<<p, k>> : p \in fired, k \in {"finished", "loop"}}
          /\ actions' = IF fired # {} THEN FadeOutActive(clamped, activeActionName)
                        ELSE clamped
          /\ activeActionName' = IF fired # {} THEN "none" ELSE activeActionName
          /\ firedNow' = fired
          /\ lastEvent' = [kind |-> "finished", play |-> actions[n].play]
    /\ lastCall' = NoCall
    /\ lastUpdate' = NoUpdate
    /\ UNCHANGED <<vrm, animationMixer, orphanRunning, plays>>
    /\ UNCHANGED <<preloadVars, compVars, springVars, blinkVars, exprVars>>

\* update(delta): a LoopRepeat action ends an iteration and the mixer
\* dispatches 'loop' to every listener: each onLoop calls the callback
clipLooped(n) ==
    /\ Advancing(n)
    /\ actions[n].loop
    /\ actions' = [actions EXCEPT ![n].time = 1]
    /\ firedNow' = ListenersOf("loop")
    /\ lastEvent' = [kind |-> "loop", play |-> actions[n].play]
    /\ lastCall' = NoCall
    /\ lastUpdate' = NoUpdate
    /\ UNCHANGED <<vrm, animationMixer, orphanRunning, activeActionName, listeners, plays>>
    /\ UNCHANGED <<preloadVars, compVars, springVars, blinkVars, exprVars>>

\* update(delta): a fade reaches its end; after a fade-out the action is
\* disabled
fadeDone(n) ==
    /\ MixerAdvances
    /\ actions[n].mixer = animationMixer
    /\ actions[n].running
    /\ actions[n].fade # "none"
    /\ actions' = [actions EXCEPT ![n].fade = "none",
                                  ![n].running = (actions[n].fade = "in")]
    /\ lastCall' = NoCall
    /\ lastUpdate' = NoUpdate
    /\ UNCHANGED <<vrm, animationMixer, orphanRunning, activeActionName, listeners, plays,
                   lastEvent, firedNow>>
    /\ UNCHANGED <<preloadVars, compVars, springVars, blinkVars, exprVars>>

\* ------------------------------------- VrmController: blink and expressions
\* enableAutoBlink(): the flag and _resetBlinkTimer()
enableAutoBlink(r) ==
    /\ NoMixerEvent
    /\ lastCall' = Call("enableAutoBlink", "none", "returned")
    /\ autoBlinkEnabled' = TRUE
    /\ nextBlinkTime' = ResetInterval(r)
    /\ blinkTimer' = 0
    /\ UNCHANGED <<isBlinking, blinkProgress, blinkPeak>>
    /\ UNCHANGED <<vrm, animationMixer, orphanRunning, actions, activeActionName,
                   listeners, plays>>
    /\ UNCHANGED <<preloadVars, compVars, springVars, exprVars>>

\* disableAutoBlink(): three fields are written, no expression is
disableAutoBlink ==
    /\ NoMixerEvent
    /\ lastCall' = Call("disableAutoBlink", "none", "returned")
    /\ autoBlinkEnabled' = FALSE
    /\ isBlinking' = FALSE
    /\ blinkProgress' = 0
    /\ UNCHANGED <<blinkTimer, nextBlinkTime, blinkPeak>>
    /\ UNCHANGED <<vrm, animationMixer, orphanRunning, actions, activeActionName,
                   listeners, plays>>
    /\ UNCHANGED <<preloadVars, compVars, springVars, exprVars>>

\* setExpression(name, value, isBinary)
setExpression(name, value, isBinary) ==
    /\ NoMixerEvent
    /\ lastCall' = Call("setExpression", name, "returned")
    /\ expressionValue' =
          IF vrm = 0 \/ ~expressionManager THEN expressionValue
          ELSE SetValue(expressionValue, name,
                        IF isBinary /\ value # 0 THEN One ELSE value)
    /\ UNCHANGED <<vrm, animationMixer, orphanRunning, actions, activeActionName,
                   listeners, plays>>
    /\ UNCHANGED <<preloadVars, compVars, springVars, blinkVars, expressionManager>>

\* what _updateAutoBlink(d) does: nothing ("off"), wait, start a blink, set
\* the blink value, or end the blink
BlinkKind(d) ==
    IF ~autoBlinkEnabled \/ ~expressionManager THEN "off"
    ELSE IF isBlinking
    THEN IF BlinkEnds(blinkProgress + d) THEN "ended" ELSE "sampled"
    ELSE IF blinkTimer + d >= nextBlinkTime THEN "started" ELSE "waited"

\* update(delta), but for the events of the mixer (the actions above): the
\* delta becomes 0 when the active action is paused, then _updateAutoBlink,
\* the spring-bone reset of a long frame, mixer.update,
\* _updateBlendShapeNeutral and vrm.update. r is the Math.random() of the
\* _resetBlinkTimer that ends a blink
ControllerUpdate(delta, r) ==
    /\ vrm # 0 /\ animationMixer # 0
    /\ LET d == IF ActivePaused THEN 0 ELSE delta
           kind == BlinkKind(d)
           blinked == CASE kind = "ended" -> SetBlink(expressionValue, 0)
                        [] kind = "sampled" ->
                             SetBlink(expressionValue, BlinkValue(blinkProgress + d))
                        [] OTHER -> expressionValue
       IN /\ isBlinking' = CASE kind = "ended" -> FALSE
                              [] kind = "started" -> TRUE
                              [] OTHER -> isBlinking
          /\ blinkProgress' = CASE kind \in {"ended", "started"} -> 0
                                 [] kind = "sampled" -> blinkProgress + d
                                 [] OTHER -> blinkProgress
          /\ blinkTimer' = CASE kind = "ended" -> 0
                              [] kind \in {"started", "waited"} -> blinkTimer + d
                              [] OTHER -> blinkTimer
          /\ nextBlinkTime' = IF kind = "ended" THEN ResetInterval(r) ELSE nextBlinkTime
          /\ blinkPeak' = CASE kind = "started" -> 0
                             [] kind = "sampled" ->
                                  Max(blinkPeak, BlinkValue(blinkProgress + d))
                             [] OTHER -> blinkPeak
          /\ expressionValue' = UpdateBlendShapeNeutral(expressionManager, blinked)
          /\ lastUpdate' = [blink |-> kind,
                            accum |-> CASE kind = "started" -> blinkTimer + d
                                        [] kind = "ended" -> blinkProgress + d
                                        [] OTHER -> 0,
                            paused |-> ActivePaused,
                            long |-> delta > ResetSpringBoneDeltaThreshold,
                            reset |-> d > ResetSpringBoneDeltaThreshold]
    /\ lastCall' = NoCall
    /\ lastEvent' = NoEvent
    /\ firedNow' = {}
    /\ UNCHANGED <<vrm, animationMixer, orphanRunning, actions, activeActionName,
                   listeners, plays>>
    /\ UNCHANGED <<autoBlinkEnabled, expressionManager, springVars>>

\* update(delta) called by a host
update(delta, r) ==
    /\ ControllerUpdate(delta, r)
    /\ UNCHANGED <<preloadVars, compVars>>

\* ------------------------------------------------- Avatar.vue: compositor
\* every step but a frame
NoFrameMade == lastFrame' = NoFrame

\* the COMPLETED listener of onMounted, once addSplatScenes has resolved (the
\* compositor's part; splatAdded is its part in the progress):
\* needUpdateBackground = true; animate()
startAnimate ==
    /\ released = <<>>
    /\ animating' = TRUE
    /\ needUpdateBackground' = TRUE
    /\ NoFrameMade
    /\ UNCHANGED <<isPaused, initialRenderFrames, gaussianSplatReady, splatRenderReady,
                   cameraPose, cameraState, elapsed, sinceResume, pausedFor>>
    /\ UNCHANGED <<preloadVars, vrmVars, released, hidden, hostPaused, backgroundPose>>

\* wall-clock time passes
tick ==
    /\ elapsed < MaxElapsed
    /\ elapsed' = elapsed + 1
    /\ sinceResume' = IF sinceResume = NoResume THEN NoResume ELSE sinceResume + 1
    /\ pausedFor' = IF isPaused THEN pausedFor + 1 ELSE pausedFor
    /\ NoFrameMade
    /\ UNCHANGED <<animating, isPaused, needUpdateBackground, initialRenderFrames,
                   gaussianSplatReady, splatRenderReady, cameraPose, cameraState>>
    /\ UNCHANGED <<preloadVars, vrmVars, released, hidden, hostPaused, backgroundPose>>

\* the point-cloud viewer sets or clears its splatRenderReady
viewerReady(b) ==
    /\ splatRenderReady' = b
    /\ NoFrameMade
    /\ UNCHANGED <<animating, isPaused, needUpdateBackground, initialRenderFrames,
                   gaussianSplatReady, cameraPose, cameraState, elapsed, sinceResume,
                   pausedFor>>
    /\ UNCHANGED <<preloadVars, vrmVars, released, hidden, hostPaused, backgroundPose>>

\* isPaused = true, by pause(), by the page becoming hidden or by the
\* PROGRESS listener
Pauses ==
    /\ isPaused' = TRUE
    /\ sinceResume' = NoResume
    /\ pausedFor' = IF isPaused THEN pausedFor ELSE 0
    /\ NoFrameMade
    /\ UNCHANGED <<animating, needUpdateBackground, initialRenderFrames,
                   gaussianSplatReady, splatRenderReady, cameraPose, cameraState,
                   elapsed>>
    /\ UNCHANGED <<preloadVars, vrmVars, released, backgroundPose>>

\* isPaused = false; clock.getDelta(); needUpdateBackground = true, by
\* resume() or by the page becoming visible
Resumes ==
    /\ isPaused' = FALSE
    /\ elapsed' = ResumeClock(elapsed)
    /\ needUpdateBackground' = TRUE
    /\ sinceResume' = 0
    /\ NoFrameMade
    /\ UNCHANGED <<animating, initialRenderFrames, gaussianSplatReady,
                   splatRenderReady, cameraPose, cameraState, pausedFor>>
    /\ UNCHANGED <<preloadVars, vrmVars, released, backgroundPose>>

\* the exposed pause()
pause ==
    /\ Pauses
    /\ hostPaused' = TRUE
    /\ UNCHANGED hidden

\* the exposed resume()
resume ==
    /\ Resumes
    /\ hostPaused' = FALSE
    /\ UNCHANGED hidden

\* onVisibilityChange: the page has become hidden (h) or visible (~h)
onVisibilityChange(h) ==
    /\ released = <<>>
    /\ hidden # h
    /\ hidden' = h
    /\ IF h THEN Pauses ELSE Resumes
    /\ UNCHANGED hostPaused

\* the PROGRESS listener of the preloader, its part in the compositor (its
\* part in the progress is EmitProgress): if (resourceProgress < 100)
\* isPaused = true
progressListener(progress) ==
    /\ IF progress < 100
       THEN Pauses
       ELSE /\ NoFrameMade
            /\ UNCHANGED <<animating, isPaused, needUpdateBackground, initialRenderFrames,
                           gaussianSplatReady, splatRenderReady, cameraPose, cameraState,
                           elapsed, sinceResume, pausedFor>>
            /\ UNCHANGED <<preloadVars, vrmVars, released, backgroundPose>>
    /\ UNCHANGED <<hidden, hostPaused>>

\* the first COMPLETED listener of the preloader, its part in the
\* compositor: isPaused = false, with no read of the clock and no repaint
\* asked for (the set-up of the rig that follows is not modelled)
completedListener ==
    /\ isPaused' = FALSE
    /\ NoFrameMade
    /\ UNCHANGED <<animating, needUpdateBackground, initialRenderFrames,
                   gaussianSplatReady, splatRenderReady, cameraPose, cameraState,
                   elapsed, sinceResume, pausedFor>>
    /\ UNCHANGED <<preloadVars, vrmVars, released, hidden, hostPaused, backgroundPose>>

\* the exposed forceBackgroundUpdate()
forceBackgroundUpdate ==
    /\ needUpdateBackground' = TRUE
    /\ NoFrameMade
    /\ UNCHANGED <<animating, isPaused, initialRenderFrames, gaussianSplatReady,
                   splatRenderReady, cameraPose, cameraState, elapsed, sinceResume,
                   pausedFor>>
    /\ UNCHANGED <<preloadVars, vrmVars, released, hidden, hostPaused, backgroundPose>>

\* a resize that sets the sizes and does not mark the environment
onWindowResize_SizesOnly ==
    /\ released = <<>>
    /\ NoFrameMade
    /\ UNCHANGED <<animating, isPaused, needUpdateBackground, initialRenderFrames,
                   gaussianSplatReady, splatRenderReady, cameraPose, cameraState,
                   elapsed, sinceResume, pausedFor>>
    /\ UNCHANGED <<preloadVars, vrmVars, released, hidden, hostPaused, backgroundPose>>

\* onWindowResize, a listener from onMounted to onUnmounted; camera,
\* renderer, target and canvas exist in between. The sizes are not modelled
onWindowResize ==
    /\ released = <<>>
    /\ needUpdateBackground' = TRUE
    /\ NoFrameMade
    /\ UNCHANGED <<animating, isPaused, initialRenderFrames, gaussianSplatReady,
                   splatRenderReady, cameraPose, cameraState, elapsed, sinceResume,
                   pausedFor>>
    /\ UNCHANGED <<preloadVars, vrmVars, released, hidden, hostPaused, backgroundPose>>

\* the dispose and clear calls of onUnmounted, in its order
TeardownOrder ==
    <<"quad", "target", "backdrop", "controls", "viewer", "environmentScene",
      "humanoidScene", "renderer">>

\* what exists at teardown: the orbit controller only with
\* props.enableOrbitControls
Exists(resource, enableOrbitControls) == resource = "controls" => enableOrbitControls

\* onUnmounted: cancelAnimationFrame, preloader.dispose(),
\* vrmController.clearVRM(), then the releases
onUnmounted(enableOrbitControls) ==
    /\ released = <<>>
    /\ animating' = FALSE
    /\ PreloaderDispose
    /\ ControllerClearVRM
    /\ released' = SelectSeq(TeardownOrder,
                             LAMBDA resource : Exists(resource, enableOrbitControls))
    /\ NoFrameMade
    /\ UNCHANGED <<isPaused, needUpdateBackground, initialRenderFrames,
                   gaussianSplatReady, splatRenderReady, cameraPose, cameraState,
                   elapsed, sinceResume, pausedFor, hidden, hostPaused, backgroundPose>>

\* animate(): one frame. pose is the camera pose controls.update() leaves,
\* r the Math.random() of VrmController.update
animate(pose, r) ==
    /\ animating
    /\ IF isPaused
       THEN /\ lastFrame' = [NoFrame EXCEPT !.kind = "paused"]
            /\ UNCHANGED <<needUpdateBackground, initialRenderFrames, gaussianSplatReady,
                           cameraPose, cameraState, elapsed, sinceResume, pausedFor,
                           backgroundPose>>
            /\ UNCHANGED vrmVars
       ELSE LET delta == elapsed
                moved == HasCameraMoved(pose, cameraState)
                ready == gaussianSplatReady \/ splatRenderReady
                force == ForceInitialRender(ready, initialRenderFrames)
                frames == IF force THEN initialRenderFrames + 1 ELSE initialRenderFrames
                need == needUpdateBackground \/ moved \/ force
            IN /\ elapsed' = 0
               /\ cameraPose' = pose
               /\ cameraState' = IF moved THEN pose ELSE cameraState
               /\ backgroundPose' = IF need THEN pose ELSE backgroundPose
               /\ gaussianSplatReady' = ready
               /\ initialRenderFrames' = frames
               /\ needUpdateBackground' =
                     (need /\ force /\ frames # INITIAL_RENDER_FRAME_COUNT)
               /\ sinceResume' = NoResume
               /\ pausedFor' = 0
               /\ lastFrame' = [kind |-> "rendered", delta |-> delta,
                                background |-> need, forced |-> force,
                                moved |-> moved, updated |-> vrm # 0,
                                afterResume |-> sinceResume # NoResume,
                                pausedFor |-> pausedFor,
                                passes |-> RenderPasses(need)]
               /\ IF vrm # 0 /\ animationMixer # 0
                  THEN ControllerUpdate(delta, r)
                  ELSE UNCHANGED vrmVars
    /\ UNCHANGED <<animating, isPaused, splatRenderReady, released, hidden, hostPaused>>
    /\ UNCHANGED preloadVars

\* ------------------------------------------------------------------- Next
Next ==
    \/ \E n \in Names, e \in ExtInputs : add(n, e)
    \/ loadEmpty
    \/ load
    \/ dispose
    \/ workerInit
    \/ \E a \in Names, r \in HeadResponses : headDone(a, r)
    \/ startLoading
    \/ \E a \in Names, l \in GetLengths : getResponse(a, l)
    \/ \E a \in Names, c \in 1..MaxBody : loaded[a] + c <= MaxBody /\ readChunk(a, c)
    \/ \E a \in Names : readDone(a)
    \/ \E a \in Names : loadFail(a)
    \/ handleWorkerMessage
    \/ \E a \in Names : decodeResolve(a)
    \/ \E a \in Names : decodeReject(a)
    \/ splatAdded
    \/ splatFailed
    \/ \E v \in Ticks : renderTick(v)
    \/ \E w \in Ticks : waitTick(w)

Spec == Init /\ [][Next]_vars

\* The same operations with servers that announce the body size at HEAD and
\* deliver exactly that many units (sizes in the ratio 100 : 300)
NextKnown ==
    \/ \E n \in Names, e \in ExtInputs : add(n, e)
    \/ loadEmpty
    \/ load
    \/ dispose
    \/ workerInit
    \/ \E a \in Names, s \in KnownBodies : headDone(a, [kind |-> "ok", length |-> s])
    \/ startLoading
    \/ \E a \in Names : getResponse(a, headResp[a].length)
    \/ \E a \in Names : \E c \in 1..headResp[a].length :
          loaded[a] + c <= headResp[a].length /\ readChunk(a, c)
    \/ \E a \in Names : loaded[a] = headResp[a].length /\ readDone(a)
    \/ \E a \in Names : loadFail(a)
    \/ handleWorkerMessage
    \/ \E a \in Names : decodeResolve(a)
    \/ \E a \in Names : decodeReject(a)
    \/ splatAdded
    \/ splatFailed
    \/ \E v \in Ticks : renderTick(v)
    \/ \E w \in Ticks : waitTick(w)

SpecKnown == Init /\ [][NextKnown]_vars

\* The preloader operations, with load() also called in the wrong status
NextApi ==
    \/ NextKnown
    \/ loadRejected

SpecApi == Init /\ [][NextApi]_vars

\* The worker behind its message interface: driven by PreloaderWithWorker, or
\* by a direct holder that may post START_LOAD and CANCEL at any moment;
\* every body is one unit long
NextWorker ==
    \/ \E n \in Names, e \in ExtInputs : add(n, e)
    \/ clientSent = {} /\ load
    \/ \E rs \in SUBSET Names : clientInit(rs)
    \/ \E t \in {"START_LOAD", "CANCEL"} : clientPost(t)
    \/ dispose
    \/ workerInit
    \/ \E a \in Names, r \in UnitHeads : headDone(a, r)
    \/ startLoading
    \/ workerCancel
    \/ \E a \in Names, l \in UnitLengths : getResponse(a, l)
    \/ \E a \in Names : loaded[a] = 0 /\ readChunk(a, 1)
    \/ \E a \in Names : readDone(a)
    \/ \E a \in Names : loadFail(a)
    \/ clientSent = {} /\ handleWorkerMessage
    \/ \E a \in Names : decodeResolve(a)
    \/ \E a \in Names : decodeReject(a)

SpecWorker == Init /\ [][NextWorker]_vars

\* The animation interface of VrmController and the mixer events of update()
NextVrm ==
    \/ setVRM(FullRig)
    \/ clearVRM
    \/ \E n \in ClipNames : registerVRMAnimation(n)
    \/ \E n \in ClipNames : unregisterVRMAnimation(n)
    \/ unregisterAllAction
    \/ \E n \in ClipNames, l \in BOOLEAN : playAction(n, l)
    \/ endAction
    \/ \E b \in BOOLEAN : setPaused(b)
    \/ \E n \in ClipNames : clipAdvance(n)
    \/ \E n \in ClipNames : clipFinished(n)
    \/ \E n \in ClipNames : clipLooped(n)
    \/ \E n \in ClipNames : fadeDone(n)

SpecVrm == Init /\ [][NextVrm]_vars

\* playAction's reset of the spring bones, with looping clips
Transitions == {0, DefaultTransition}

NextSpring ==
    \/ setVRM(FullRig)
    \/ \E n \in ClipNames : registerVRMAnimation(n)
    \/ \E n \in ClipNames, t \in Transitions, r \in BOOLEAN : PlayAction(n, TRUE, t, r)
    \/ endAction
    \/ animationFrame

SpecSpring == Init /\ [][NextSpring]_vars

\* VrmController's auto-blink on a rig that plays no clip
NextBlink ==
    \/ setVRM(FullRig)
    \/ \E r \in Randoms : enableAutoBlink(r)
    \/ disableAutoBlink
    \/ \E delta \in Deltas, r \in Randoms : update(delta, r)

SpecBlink == Init /\ [][NextBlink]_vars

\* VrmController's update while a clip plays or is paused; the blink
\* interval is the shortest one
NextPaused ==
    \/ setVRM(FullRig)
    \/ registerVRMAnimation("idle")
    \/ playAction("idle", TRUE)
    \/ \E b \in BOOLEAN : setPaused(b)
    \/ enableAutoBlink(0)
    \/ \E delta \in Deltas : update(delta, 0)

SpecPaused == Init /\ [][NextPaused]_vars

\* VrmController's expressions on each kind of rig
NextExpr ==
    \/ \E rig \in Rigs : setVRM(rig)
    \/ clearVRM
    \/ \E c \in EmotionChannels \cup {"neutral"}, w \in Weights, b \in BOOLEAN :
          setExpression(c, w, b)
    \/ \E delta \in Deltas, r \in Randoms : update(delta, r)

SpecExpr == Init /\ [][NextExpr]_vars

\* The compositor's camera-movement detection
NextCamera ==
    \/ startAnimate
    \/ forceBackgroundUpdate
    \/ \E b \in BOOLEAN : onVisibilityChange(b)
    \/ \E pose \in Poses : animate(pose, 0)

SpecCamera == Init /\ [][NextCamera]_vars

\* The compositor's forced repaints once the viewer is ready
NextBurst ==
    \/ startAnimate
    \/ \E b \in BOOLEAN : viewerReady(b)
    \/ pause
    \/ resume
    \/ forceBackgroundUpdate
    \/ \E pose \in {Origin, Far} : animate(pose, 0)

SpecBurst == Init /\ [][NextBurst]_vars

\* The compositor's clock across pauses
NextClock ==
    \/ startAnimate
    \/ setVRM(FullRig)
    \/ tick
    \/ pause
    \/ resume
    \/ \E b \in BOOLEAN : onVisibilityChange(b)
    \/ animate(Origin, 0)

SpecClock == Init /\ [][NextClock]_vars

\* Everything that writes isPaused: the host, the page, the preloader's
\* listeners
NextPause ==
    \/ startAnimate
    \/ tick
    \/ pause
    \/ resume
    \/ \E h \in BOOLEAN : onVisibilityChange(h)
    \/ \E p \in Ticks : progressListener(p)
    \/ completedListener
    \/ animate(Origin, 0)

SpecPause == Init /\ [][NextPause]_vars

\* The component from the start of its frame loop to its teardown
NextMounted ==
    \/ \E n \in Names, e \in ExtInputs : add(n, e)
    \/ load
    \/ setVRM(FullRig)
    \/ startAnimate
    \/ pause
    \/ resume
    \/ forceBackgroundUpdate
    \/ onWindowResize
    \/ \E b \in BOOLEAN : onVisibilityChange(b)
    \/ \E pose \in {Origin, Far} : animate(pose, 0)
    \/ \E b \in BOOLEAN : onUnmounted(b)

SpecMounted == Init /\ [][NextMounted]_vars

\* A load in which every HEAD is answered (with a failure, without a size
\* or with one), every GET delivers its body to the end and every decode
\* resolves; every body is one unit long
NextLive ==
    \/ \E n \in Names, e \in ExtInputs : add(n, e)
    \/ load
    \/ workerInit
    \/ \E a \in Names, r \in UnitHeads : headDone(a, r)
    \/ startLoading
    \/ \E a \in Names, l \in UnitLengths : getResponse(a, l)
    \/ \E a \in Names : loaded[a] = 0 /\ readChunk(a, 1)
    \/ \E a \in Names : readDone(a)
    \/ handleWorkerMessage
    \/ \E a \in Names : decodeResolve(a)

\* the worker's message handler and promise callbacks, the main thread's
\* message handler and the decode callbacks are run by the event loops
\* whenever they are due
FairLive ==
    /\ WF_vars(workerInit)
    /\ WF_vars(startLoading)
    /\ WF_vars(handleWorkerMessage)
    /\ \A a \in Names :
          /\ WF_vars(\E r \in UnitHeads : headDone(a, r))
          /\ WF_vars(\E l \in UnitLengths : getResponse(a, l))
          /\ WF_vars(readDone(a))
          /\ WF_vars(decodeResolve(a))

SpecLive == Init /\ [][NextLive]_vars /\ FairLive

TypeOK ==
    /\ status \in {"pending", "loading", "completed", "error"}
    /\ worker \in BOOLEAN
    /\ pendingGLTFLoads \subseteq Names
    /\ \A a \in Names : pc[a] \in {"none", "head", "sized", "get", "read", "done", "failed"}
    /\ avatarPhase \in {"loading", "addingSplat", "render", "wait", "ready", "error"}

\* =================================================================== claims
\* the assets of the running session: the resources registered when load()
\* was called
SessionNames == {resources[i].name : i \in 1..totalResourcesCount}

\* gate (a): every asset of the session was delivered by the worker
BytesGate == SessionNames \subseteq delivered

\* gate (b): every main-thread decode has resolved
DecodeGate ==
    /\ pendingGLTFLoads = {}
    /\ decodeFailed = {}
    /\ \A i \in 1..totalResourcesCount :
          (resources[i].name \in delivered /\ IsGLTF(resources[i].type))
              => resources[i].data = "gltf"

\* C1: `completed` fires if and only if both gates hold: it is never emitted
\* while an asset is undelivered or a decode is pending (or was rejected);
\* once ALL_COMPLETED was handled and every decode has resolved it has been
\* emitted; and when the last decode resolves after ALL_COMPLETED was
\* handled, `completed` is emitted in that very step.
C1_DoubleGate ==
    /\ [](completedCount >= 1 => (BytesGate /\ DecodeGate))
    /\ []((allCompletedSeen /\ DecodeGate) => completedCount >= 1)
    /\ [][completedCount' > completedCount => (BytesGate' /\ DecodeGate')]_vars
    /\ [][(allCompletedSeen /\ pendingGLTFLoads # {} /\ pendingGLTFLoads' = {}
              /\ decodeFailed' = {})
            => completedCount' = completedCount + 1]_vars

\* C1 witness: ALL_COMPLETED was handled while a decode was pending, and the
\* resolution of that decode emitted `completed`
C1_Witness ==
    /\ allCompletedSeen
    /\ completedBy = "decode"
    /\ completedCount = 1
    /\ Cardinality(SessionNames) = 2

\* C2: the progress observed from the Avatar component (the values emitted by
\* `loading`, which are the new values of preloadProgress, and the value
\* returned by getLoadProgress()) never decreases.
C2_ObservedProgressMonotonic == [][preloadProgress' >= preloadProgress]_vars

\* C3: every `progress` event of the preloader carries a percent in 0..100
\* and getLoadProgress() is in 0..100.
C3_ProgressInRange ==
    /\ progressLast <= 100
    /\ preloadProgress \in 0..100

\* every asset of the session has a size known from HEAD that its body has
\* not contradicted so far
KnownSizes ==
    /\ WorkerNames # {}
    /\ \A a \in WorkerNames :
          /\ pc[a] \notin {"head", "failed"}
          /\ headResp[a].kind = "ok"
          /\ headResp[a].length > 0
          /\ loaded[a] <= headResp[a].length
          /\ pc[a] = "done" => loaded[a] = headResp[a].length

\* C4 (as claimed): with all sizes known and the chunks delivered until all
\* assets are complete, the `progress` events are monotonic and the value
\* 100 is delivered exactly once.
C4_HundredExactlyOnce ==
    /\ [][(KnownSizes /\ KnownSizes') => progressLast' >= progressLast]_vars
    /\ []((KnownSizes /\ status = "completed") => count100 = 1)

\* C4 (amended): with all sizes known, the `progress` events are
\* non-decreasing integers in 0..100 and the last one is 100; the value 100
\* is delivered more than once (final chunk, forced per-asset report,
\* completion override).
C4_MonotonicEndingAt100 ==
    /\ [][(KnownSizes /\ KnownSizes') => progressLast' >= progressLast]_vars
    /\ [](KnownSizes => progressLast \in -1..100)
    /\ []((KnownSizes /\ status = "completed")
            => (progressLast = 100 /\ count100 >= 2))

\* C4 witness: two assets of known sizes 1 and 3 (100 and 300 bytes)
\* completed
C4_Witness ==
    /\ KnownSizes
    /\ status = "completed"
    /\ \E a, b \in WorkerNames : headResp[a].length = 1 /\ headResp[b].length = 3
    /\ count100 >= 2

\* the step in which loadResource learns from the GET response the size of
\* an asset whose HEAD gave none
SizeCorrected(a) ==
    /\ pc[a] = "get"
    /\ pc'[a] = "read"
    /\ size[a] = -1
    /\ size'[a] # -1

\* C5 (as claimed): the correction raises the total by the size and always
\* posts one extra PROGRESS message, whatever was loaded so far.
C5_AlwaysExtraProgress ==
    [][\A a \in Names : SizeCorrected(a) =>
          /\ totalBytes' = totalBytes + size'[a]
          /\ Len(chan') = Len(chan) + 1
          /\ chan'[Len(chan')].type = "PROGRESS"]_vars

\* C5 (amended): the correction raises the total by the size before any
\* body chunk of the asset is counted, and posts one extra PROGRESS message
\* exactly when the total is positive and the recomputed percentage differs
\* from the last reported one; with nothing loaded and nothing reported
\* (0 = 0) no message is posted.
C5_ExtraProgressWhenChanged ==
    [][\A a \in Names : SizeCorrected(a) =>
          /\ totalBytes' = totalBytes + size'[a]
          /\ loaded'[a] = 0
          /\ totalLoadedBytes' = totalLoadedBytes
          /\ IF totalBytes' > 0
                /\ (totalLoadedBytes * 100) \div totalBytes' # lastReportedProgress
             THEN /\ chan' = Append(chan, Msg("PROGRESS",
                                 (totalLoadedBytes * 100) \div totalBytes', ""))
                  /\ lastReportedProgress' = (totalLoadedBytes * 100) \div totalBytes'
             ELSE /\ chan' = chan
                  /\ lastReportedProgress' = lastReportedProgress]_vars

\* C5 witness: an asset unknown at HEAD got its size from the GET response,
\* none of its body is counted yet, bytes of another asset are, and the
\* corrected percentage is the last message posted
C5_Witness ==
    \E a \in Names :
        /\ pc[a] = "read"
        /\ headResp[a].kind = "ok"
        /\ headResp[a].length = -1
        /\ size[a] > 0
        /\ loaded[a] = 0
        /\ totalLoadedBytes > 0
        /\ chan # <<>>
        /\ chan[Len(chan)].type = "PROGRESS"
        /\ chan[Len(chan)].progress = (totalLoadedBytes * 100) \div totalBytes
        /\ chan[Len(chan)].progress < 100

\* C6: listeners of `error` are invoked at most once per session.
C6_OneErrorPerSession == errorCount <= 1

\* C7: after an error of either origin the status is Error, the worker is
\* terminated and `completed` is not emitted.
C7_ErrorAbortsSession ==
    errorCount > 0 => (status = "error" /\ ~worker /\ completedCount = 0)

\* a HEAD that failed (network error or non-OK status) or had no
\* Content-Length
HeadUnknown(a) ==
    \/ headResp[a].kind \in {"network_error", "not_ok"}
    \/ headResp[a].kind = "ok" /\ headResp[a].length = -1

HeadContribution == [a \in Names |->
    IF headResp[a].kind = "ok" /\ headResp[a].length > 0 THEN headResp[a].length ELSE 0]

\* no step of the session is left: every GET body was read, every message
\* of the worker was handled and no decode is in flight
Quiescent ==
    /\ WorkerNames # {}
    /\ \A a \in WorkerNames : pc[a] = "done"
    /\ chan = <<>>
    /\ pendingGLTFLoads = {}

\* the worker was terminated by dispose(), not by the end of the session
Cancelled == status = "loading" /\ ~worker

\* C8, first part: an asset whose HEAD failed or had no Content-Length has
\* size -1 until its GET answers and adds 0 to the total of SIZE_READY; the
\* worker posts ERROR only after a GET or a read failed, and `error` is
\* emitted only after such a failure or a rejected decode.
HeadFailureIsNotAnError ==
    /\ \A a \in Names : (pc[a] \in {"sized", "get"} /\ HeadUnknown(a)) => size[a] = -1
    /\ \A i \in 1..Len(chan) :
          chan[i].type = "SIZE_READY"
              => chan[i].progress = SumOver(WorkerNames, HeadContribution)
    /\ \A i \in 1..Len(chan) :
          chan[i].type = "ERROR" => \E a \in Names : pc[a] = "failed"
    /\ errorCount > 0 => ((\E a \in Names : pc[a] = "failed") \/ decodeFailed # {})

\* C8 (as claimed): a HEAD failure is not an error, and if every GET
\* succeeds the session ends in `completed` with no `error` event.
C8_HeadFailureThenCompleted ==
    /\ HeadFailureIsNotAnError
    /\ (Quiescent /\ ~Cancelled) => (status = "completed" /\ errorCount = 0)

\* C8 (amended): a HEAD failure is not an error, and if every GET succeeds,
\* every main-thread decode resolves and the session is not disposed, the
\* session ends in `completed` with no `error` event.
C8_HeadFailureThenCompletedIfDecoded ==
    /\ HeadFailureIsNotAnError
    /\ (Quiescent /\ decodeFailed = {} /\ ~Cancelled)
          => (status = "completed" /\ errorCount = 0)

\* C8 witness: a session with a failed HEAD completed without any error
C8_Witness ==
    /\ status = "completed"
    /\ errorCount = 0
    /\ completedCount = 1
    /\ \E a \in WorkerNames : headResp[a].kind \in {"network_error", "not_ok"}
    /\ \E a \in WorkerNames : headResp[a].kind = "ok" /\ headResp[a].length > 0

\* a single asset is registered and its HEAD request failed
OneAssetHeadFailed ==
    /\ Cardinality(WorkerNames) = 1
    /\ totalResourcesCount = 1
    /\ \A a \in WorkerNames : headResp[a].kind \in {"network_error", "not_ok"}

\* C9 (as claimed): a single asset whose HEAD fails gives one `error`, no
\* `progress` above 0 and no `completed`.
C9_HeadFailureFailsLoad ==
    OneAssetHeadFailed => (progressLast <= 0 /\ completedCount = 0 /\ errorCount <= 1)

\* C9 (amended): a single asset whose HEAD fails is downloaded as an asset of
\* unknown size and no `error` is emitted on that account; when its GET
\* request fails as well (before any body byte), exactly one `error` is
\* emitted once the worker's ERROR is handled, with no `progress` above 0, no
\* `completed`, the status Error and the worker terminated.
C9_HeadFailureThenGetFailure ==
    OneAssetHeadFailed =>
        \A a \in WorkerNames :
            /\ pc[a] \in {"sized", "get"} => size[a] = -1
            /\ errorCount > 0 => (pc[a] = "failed" \/ decodeFailed # {})
            /\ (pc[a] = "failed" /\ loaded[a] = 0) =>
                  /\ progressLast <= 0
                  /\ completedCount = 0
                  /\ errorCount <= 1
                  /\ errorCount = 1 => (status = "error" /\ ~worker)
                  /\ worker => (errorCount = 0
                                 /\ \E i \in 1..Len(chan) : chan[i].type = "ERROR")

\* C9 witness: HEAD and GET of the single asset failed and the one `error`
\* was emitted
C9_Witness ==
    /\ OneAssetHeadFailed
    /\ \A a \in WorkerNames : pc[a] = "failed" /\ loaded[a] = 0
    /\ errorCount = 1
    /\ status = "error"
    /\ ~worker

\* C10: add() after load() has started registers nothing: the resource
\* table keeps its entries.
C10_AddAfterLoadRejected ==
    [][status # "pending" =>
          [i \in 1..Len(resources') |-> resources'[i].name]
              = [i \in 1..Len(resources) |-> resources[i].name]]_vars

\* C11: load() starts exactly one session. A load() call in a status other
\* than Pending throws and changes nothing; no step taken in such a status
\* creates a worker or posts INIT, and a running session keeps its total.
C11_OneLoadSession ==
    /\ [][loadThrown' # loadThrown =>
            /\ status # "pending"
            /\ UNCHANGED <<mainVars, portVars, workerVars, avatarVars, obsVars>>]_vars
    /\ [][status # "pending" =>
            /\ worker' => worker
            /\ ~(Len(inbox') > Len(inbox) /\ inbox'[Len(inbox')].type = "INIT")
            /\ totalResourcesCount' = totalResourcesCount
            /\ loadedResourcesCount' >= loadedResourcesCount]_vars

\* C11 witness: load() was called again while the session was running with
\* an asset already loaded, and the session is still running
C11_Witness ==
    /\ loadThrown = 1
    /\ status = "loading"
    /\ worker
    /\ loadedResourcesCount >= 1
    /\ loadedResourcesCount < totalResourcesCount

\* C12: with no asset registered, load() emits `completed` with an empty
\* resource table in the same call, creates no worker, posts nothing, emits
\* no `error` and leaves the status Completed.
C12_EmptyLoadCompletes ==
    /\ [][(status = "pending" /\ resources = <<>> /\ status' # status) =>
            /\ status' = "completed"
            /\ completedCount' = completedCount + 1
            /\ resources' = <<>>
            /\ ~worker'
            /\ inbox' = inbox
            /\ errorCount' = errorCount]_vars
    /\ [](completedBy = "load" =>
            (status = "completed" /\ ~worker /\ inbox = <<>> /\ errorCount = 0
               /\ completedCount = 1))

\* C12 witness: load() with an empty table has emitted `completed`
C12_Witness ==
    /\ completedBy = "load"
    /\ completedCount = 1
    /\ resources = <<>>
    /\ status = "completed"
    /\ ~worker

\* C13 (as claimed): every change of the status is Pending->Loading,
\* Loading->Completed or Loading->Error.
C13_ThreeTransitions ==
    [][status' # status =>
          <<status, status'>> \in {<<"pending", "loading">>, <<"loading", "completed">>,
                                   <<"loading", "error">>}]_vars

\* C13 (amended): every change of the status is Pending->Loading,
\* Loading->Completed, Loading->Error or, for a load() with no asset
\* registered, Pending->Completed; the status never re-enters Pending and
\* never changes once it is Completed or Error.
C13_MonotonicStatus ==
    [][status' # status =>
          \/ <<status, status'>> \in {<<"pending", "loading">>, <<"loading", "completed">>,
                                      <<"loading", "error">>}
          \/ (<<status, status'>> = <<"pending", "completed">> /\ resources = <<>>)]_vars

\* C13 witness: the session ended in Error with a decode still in flight,
\* and a later load() was rejected
C13_Witness ==
    /\ status = "error"
    /\ pendingGLTFLoads # {}
    /\ loadThrown = 1

\* a GET was issued for some asset
BodyStarted == \E a \in Names : pc[a] \in {"get", "read", "done", "failed"}

\* C14: the Preloader posts START_LOAD only in the step that handles
\* SIZE_READY; no GET is issued before the worker has posted SIZE_READY with
\* the sum of the sizes known from HEAD; a START_LOAD handled before the
\* initialisation finished posts ERROR 'Worker not initialized' and issues no
\* GET.
C14_StartAfterSizeReady ==
    /\ [][(Len(inbox') > Len(inbox) /\ inbox'[Len(inbox')].type = "START_LOAD"
              /\ clientSent' = clientSent)
            => (chan # <<>> /\ Head(chan).type = "SIZE_READY" /\ workerInitialized')]_vars
    /\ [](BodyStarted => isInitialized)
    /\ []((BodyStarted /\ clientSent = {}) => workerInitialized)
    /\ []((BodyStarted /\ clientSent # {} /\ worker) =>
            \E i \in 1..Len(chan) :
                /\ chan[i].type = "SIZE_READY"
                /\ chan[i].progress = SumOver(WorkerNames, HeadContribution))
    /\ [][(worker' /\ inbox # <<>> /\ Head(inbox).type = "START_LOAD"
              /\ inbox' = Tail(inbox) /\ ~isInitialized)
            => (chan' = Append(chan, ErrorMsg("", "Worker not initialized"))
                 /\ pc' = pc)]_vars

\* C14 witness: a premature START_LOAD was answered by 'Worker not
\* initialized'; the HEAD requests then finished with a partial total and no
\* GET was issued
C14_Witness ==
    /\ \E i \in 1..Len(chan) : chan[i].error = "Worker not initialized"
    /\ \E i \in 1..Len(chan) : chan[i].type = "SIZE_READY" /\ chan[i].progress = 1
    /\ \E a \in WorkerNames : HeadUnknown(a)
    /\ isInitialized
    /\ ~BodyStarted

\* C15: once dispose() has terminated the worker of a running session, a
\* decode callback that settles changes no counter or status and emits no
\* event.
C15_LateDecodeDiscarded ==
    [][(Cancelled /\ pendingGLTFLoads' # pendingGLTFLoads) =>
          /\ loadedResourcesCount' = loadedResourcesCount
          /\ status' = status
          /\ count100' = count100
          /\ completedCount' = completedCount
          /\ errorCount' = errorCount]_vars

\* C16: after the worker handled CANCEL (it answered 'Load cancelled') it
\* posts no RESOURCE_LOADED, PROGRESS or ALL_COMPLETED.
C16_NothingAfterCancel ==
    \A i, j \in 1..Len(chan) :
        (i < j /\ chan[i].error = "Load cancelled")
            => chan[j].type \notin {"RESOURCE_LOADED", "PROGRESS", "ALL_COMPLETED"}

\* C17: when the preloader has emitted `error`, the Avatar component has
\* emitted its own `error` (and neither `loaded` nor `ready`).
C17_ErrorHandedToUI == errorCount > 0 => avatarPhase = "error"

\* what playAction can change in the controller
AnimationState == <<vrm, animationMixer, actions, activeActionName, listeners, plays>>

\* C18: with a rig attached, playAction(name) for the clip that is already
\* active changes nothing: no fade is started, the action is not reset, no
\* mixer listener is added, the active clip name stays; and it returns
\* normally when the clip is registered.
C18_ReplayIsNoOp ==
    [][(lastCall'.op = "playAction" /\ vrm # 0 /\ animationMixer # 0
           /\ activeActionName = lastCall'.name)
         => /\ UNCHANGED AnimationState
            /\ actions[activeActionName].mixer # 0 => lastCall'.result = "returned"]_vars

\* C18 witness: the clip being played was asked for again while it was in
\* the middle of its run, and it is still the only playback
C18_Witness ==
    /\ lastCall.op = "playAction"
    /\ lastCall.result = "returned"
    /\ activeActionName = lastCall.name
    /\ vrm # 0
    /\ actions[activeActionName].running
    /\ actions[activeActionName].time = 1
    /\ Len(plays) = 1
    /\ Cardinality(listeners) = 2

\* C19: with a rig attached, playAction(name) for a name with no registered
\* clip throws and leaves the active clip, every action and the mixer
\* listeners as they were.
C19_UnknownClipThrows ==
    [][(lastCall'.op = "playAction" /\ vrm # 0 /\ animationMixer # 0
           /\ actions[lastCall'.name].mixer = 0)
         => (lastCall'.result = "threw" /\ UNCHANGED AnimationState)]_vars

\* C19 witness: playAction threw for an unregistered name while another clip
\* was playing
C19_Witness ==
    /\ lastCall.result = "threw"
    /\ actions[lastCall.name].mixer = 0
    /\ activeActionName # "none"
    /\ actions[activeActionName].running
    /\ listeners # {}

\* C20: a callback passed to playAction runs only on an event of its own
\* playback (onFinished when that playback finishes, onLoop when it ends an
\* iteration), and the end of a one-shot playback runs its onFinished.
C20_CallbacksOfOwnPlayback ==
    /\ \A p \in firedNow : lastEvent.play = p
    /\ lastEvent.kind = "finished" => lastEvent.play \in firedNow

\* the names hasAction answers TRUE for
RegisteredClips(acts) == {n \in ClipNames : HasAction(acts, n)}

\* C21: setVRM on a controller that already has a rig tears the previous rig
\* down: afterwards every clip registered for the previous rig is stopped and
\* no longer registered, there is no active clip, and the mixer is the one of
\* the new rig.
C21_PreviousRigTornDown ==
    [][(lastCall'.op = "setVRM" /\ lastCall'.result = "replaced")
          => /\ RegisteredClips(actions') = {}
             /\ \A n \in ClipNames : ~actions'[n].running
             /\ activeActionName' = "none"
             /\ animationMixer' = CurrentMixer]_vars

\* C22: registering a name that is already registered stops the prior action
\* and replaces it with the new one: the registered names are unchanged, the
\* name holds the latest action (a fresh one of the current mixer), no other
\* name is touched and no action is left scheduled outside the map.
C22_ReregisterReplaces ==
    [][(lastCall'.op = "registerVRMAnimation" /\ lastCall'.result = "replaced")
          => /\ RegisteredClips(actions') = RegisteredClips(actions)
             /\ actions'[lastCall'.name] = NewAction(CurrentMixer)
             /\ \A n \in ClipNames \ {lastCall'.name} : actions'[n] = actions[n]
             /\ ~orphanRunning']_vars

\* a clip is registered again while it is the active one
C22_Witness ==
    /\ lastCall.op = "registerVRMAnimation"
    /\ lastCall.result = "replaced"
    /\ activeActionName = lastCall.name
    /\ Len(plays) > 0

\* the weights of the three blink channels
BlinkWeights(ev) == [c \in BlinkChannels |-> ev[c]]

\* C23: disableAutoBlink(), in any blink state, immediately sets blink,
\* blinkLeft and blinkRight to 0 and halts the timer: while auto-blink is
\* disabled no update() changes the blink state or the three channels.
C23_DisableZeroesAndHalts ==
    [][/\ lastCall'.op = "disableAutoBlink"
            => \A c \in BlinkChannels : OrZero(expressionValue'[c]) = 0
       /\ (lastUpdate'.blink # "none" /\ ~autoBlinkEnabled)
            => UNCHANGED <<blinkVars, BlinkWeights(expressionValue)>>]_vars

\* C24: with auto-blink enabled and the default parameters, whatever the
\* deltas: the time accumulated when a blink starts lies in [2.0 s, 6.0 s];
\* every blink raises the three channels to a peak of 1.0 and is over within
\* the blink duration; and when it ends the channels are 0 and the timer
\* restarts from 0 with a fresh interval.
C24_IntervalPeakDuration ==
    [][/\ lastUpdate'.blink = "started"
            => lastUpdate'.accum \in BlinkIntervalMin..BlinkIntervalMax
       /\ lastUpdate'.blink = "ended"
            => /\ blinkPeak' = One
               /\ lastUpdate'.accum <= BlinkDuration
               /\ \A c \in BlinkChannels : expressionValue'[c] = 0
               /\ blinkTimer' = 0
               /\ nextBlinkTime' \in BlinkIntervalMin..BlinkIntervalMax]_vars

\* C24 (amended): the interval drawn lies in [2.0 s, 6.0 s); a blink starts
\* at the first update at which the accumulated time reaches the interval
\* (so the time is at least 2.0 s and passes the interval by less than that
\* update's delta); an update inside a blink sets the three channels to
\* sin(pi * progress / duration), between 0 and 1; the blink ends at the
\* first update at which the progress reaches the duration, which sets the
\* channels to 0 and restarts the timer from 0 with a fresh interval.
C24_BlinkFollowsFrames ==
    [][/\ lastUpdate'.blink = "started"
            => /\ nextBlinkTime \in BlinkIntervalMin..(BlinkIntervalMax - 1)
               /\ blinkTimer < nextBlinkTime
               /\ lastUpdate'.accum >= nextBlinkTime
               /\ isBlinking' /\ blinkProgress' = 0
       /\ lastUpdate'.blink = "sampled"
            => /\ blinkProgress' < BlinkDuration
               /\ \A c \in BlinkChannels :
                     /\ expressionValue'[c] = BlinkValue(blinkProgress')
                     /\ expressionValue'[c] \in 0..One
       /\ lastUpdate'.blink = "ended"
            => /\ blinkProgress < BlinkDuration
               /\ lastUpdate'.accum >= BlinkDuration
               /\ \A c \in BlinkChannels : expressionValue'[c] = 0
               /\ ~isBlinking'
               /\ blinkTimer' = 0
               /\ nextBlinkTime' \in BlinkIntervalMin..(BlinkIntervalMax - 1)]_vars

\* a blink has ended whose frames never showed the peak
C24_Witness ==
    /\ lastUpdate.blink = "ended"
    /\ blinkPeak < One
    /\ lastUpdate.accum > BlinkDuration

\* C25: after every update() on a rig with a neutral expression, neutral is
\* max(0, 1 - (Angry + Happy + Relaxed + Sad + Surprised)) of the current
\* weights, an expression without a value counting as 0; never negative.
C25_NeutralIsRemainder ==
    [][(lastUpdate'.blink # "none" /\ expressionManager
            /\ expressionValue["neutral"] # NoValue)
          => LET sum == SumOver(EmotionChannels,
                                [c \in EmotionChannels |-> OrZero(expressionValue'[c])])
             IN /\ expressionValue'["neutral"] = Max(0, One - sum)
                /\ expressionValue'["neutral"] >= 0]_vars

\* an update on a rig without Surprised whose other weights sum above 1
C25_Witness ==
    /\ lastUpdate.blink # "none"
    /\ expressionValue["Surprised"] = NoValue
    /\ expressionValue["neutral"] = 0
    /\ EmotionSum(expressionValue) > One

\* C29: when the active clip is paused, update(delta) zeroes the delta for
\* the mixer only: the blink state machine still advances by the real delta
\* and a frame longer than 0.5 s still schedules the spring-bone reset.
C29_OnlyMixerDeltaZeroed ==
    [][(lastUpdate'.blink # "none" /\ lastUpdate'.paused)
          => /\ (autoBlinkEnabled /\ expressionManager)
                   => \/ lastUpdate'.blink \in {"started", "ended"}
                      \/ blinkTimer' > blinkTimer
                      \/ blinkProgress' > blinkProgress
             /\ lastUpdate'.long => lastUpdate'.reset]_vars

\* a frame of the compositor that is not skipped for the pause
UnpausedFrame ==
    /\ ~isPaused
    /\ \E pose \in Poses, r \in Randoms : animate(pose, r)

\* C26: no elapsed time is sampled while rendering is paused: after a pause
\* (pause() or page hidden) ended by resume() or by the page becoming
\* visible, the first frame, and the vrmController.update it makes, gets the
\* time since the resume as its delta, not the time since the last frame
\* before the pause.
C26_DeltaFromResume ==
    [][(UnpausedFrame /\ sinceResume # NoResume)
          => lastFrame'.delta = sinceResume]_vars

\* the first update after a pause that lasted some time
C26_Witness ==
    /\ lastFrame.kind = "rendered"
    /\ lastFrame.afterResume
    /\ lastFrame.updated
    /\ lastFrame.pausedFor > 0
    /\ lastFrame.delta > 0
    /\ lastUpdate.blink # "none"

\* C27: a frame whose camera pose is within both thresholds of the snapshot
\* (an unchanged pose included) leaves the snapshot alone and does not mark
\* the environment dirty; a pose beyond the position or the rotation
\* threshold replaces the snapshot and marks the environment dirty, so the
\* environment is rendered in that frame.
C27_CameraDetection ==
    [][UnpausedFrame
          => IF \/ Distance(cameraPose'.position, cameraState.position)
                       > CameraMoveThreshold
                \/ Distance(cameraPose'.rotation, cameraState.rotation)
                       > CameraRotateThreshold
             THEN /\ cameraState' = cameraPose'
                  /\ lastFrame'.moved
                  /\ lastFrame'.background
             ELSE /\ cameraState' = cameraState
                  /\ ~lastFrame'.moved
                  /\ lastFrame'.background = (needUpdateBackground \/ lastFrame'.forced)
                  /\ ~lastFrame'.forced => ~needUpdateBackground']_vars

\* a frame with the camera at the thresholds of the snapshot: nothing marked
C27_Witness ==
    /\ lastFrame.kind = "rendered"
    /\ ~lastFrame.moved
    /\ ~lastFrame.background
    /\ Distance(cameraPose.position, cameraState.position) = CameraMoveThreshold
    /\ Distance(cameraPose.rotation, cameraState.rotation) = CameraRotateThreshold

\* C30: the burst counter moves only once the compositor has seen the
\* viewer ready: from then on each unpaused frame renders the environment
\* and counts, up to 60; the counter never passes 60 and never goes back,
\* whatever the viewer's flag does; after the 60th frame the environment is
\* rendered only when the dirty flag is set.
C30_BurstOfSixty ==
    [][/\ initialRenderFrames' \in {initialRenderFrames, initialRenderFrames + 1}
       /\ initialRenderFrames' <= INITIAL_RENDER_FRAME_COUNT
       /\ gaussianSplatReady => gaussianSplatReady'
       /\ (gaussianSplatReady' /\ ~gaussianSplatReady) => splatRenderReady
       /\ ~gaussianSplatReady' => initialRenderFrames' = 0
       /\ initialRenderFrames' # initialRenderFrames
            => /\ UnpausedFrame
               /\ gaussianSplatReady'
               /\ lastFrame'.background
       /\ (UnpausedFrame /\ gaussianSplatReady'
                /\ initialRenderFrames < INITIAL_RENDER_FRAME_COUNT)
            => /\ initialRenderFrames' = initialRenderFrames + 1
               /\ lastFrame'.background
       /\ (UnpausedFrame /\ initialRenderFrames = INITIAL_RENDER_FRAME_COUNT)
            => lastFrame'.background = (needUpdateBackground \/ lastFrame'.moved)]_vars

\* after the burst, with the viewer's flag cleared again: a frame that
\* renders no environment
C30_Witness ==
    /\ initialRenderFrames = INITIAL_RENDER_FRAME_COUNT
    /\ lastFrame.kind = "rendered"
    /\ ~lastFrame.background
    /\ gaussianSplatReady
    /\ ~splatRenderReady

\* C28: when every HEAD is answered, every body is delivered to its end and
\* every decode resolves, in whatever order, a load that was started
\* eventually emits `completed`, the last `progress` before it being 100,
\* and the worker is terminated.
C28_EventuallyCompleted ==
    (status = "loading")
        ~> (/\ status = "completed"
            /\ completedCount >= 1
            /\ progressLast = 100
            /\ ~worker)

\* the load of two assets has completed, the decode resolving last
C28_Witness ==
    /\ status = "completed"
    /\ completedCount = 1
    /\ progressLast = 100
    /\ ~worker
    /\ totalResourcesCount = 2
    /\ completedBy = "decode"

\* a call of animate(), paused or not
Frame == \E pose \in Poses, r \in Randoms : animate(pose, r)

\* the passes of a frame that draw the scene named
PassesOf(frame, scene) == {i \in DOMAIN frame.passes : frame.passes[i] = scene}

\* C31: every unpaused frame renders the humanoid scene onto the canvas
\* exactly once, as its last pass, whether or not the environment was
\* rendered; the environment, when it is due, is rendered once and before
\* the humanoid pass of the same frame; a paused frame renders neither.
C31_HumanoidEveryFrame ==
    [][Frame
          => IF isPaused
             THEN lastFrame'.passes = <<>>
             ELSE /\ Cardinality(PassesOf(lastFrame', "humanoid")) = 1
                  /\ lastFrame'.passes[Len(lastFrame'.passes)] = "humanoid"
                  /\ lastFrame'.background
                        = (needUpdateBackground \/ lastFrame'.moved \/ lastFrame'.forced)
                  /\ PassesOf(lastFrame', "environment")
                        = IF lastFrame'.background THEN {1} ELSE {}]_vars

\* a frame that rendered the humanoid scene without the environment
C31_Witness ==
    /\ lastFrame.kind = "rendered"
    /\ ~lastFrame.background
    /\ lastFrame.passes = <<"humanoid">>

\* one of the calls that ask for a repaint of the environment
RepaintTrigger ==
    \/ onWindowResize
    \/ onVisibilityChange(FALSE)
    \/ resume
    \/ forceBackgroundUpdate

\* C32: a window resize, the page becoming visible, resume() and
\* forceBackgroundUpdate() set the repaint flag; the flag, once set, stays
\* set through every step that is not an unpaused frame (paused frames
\* included), the next unpaused frame renders the environment, and the flag
\* is cleared only by an unpaused frame that rendered the environment.
C32_RepaintAfterTrigger ==
    [][/\ RepaintTrigger => needUpdateBackground'
       /\ (needUpdateBackground /\ ~UnpausedFrame) => needUpdateBackground'
       /\ (needUpdateBackground /\ UnpausedFrame)
            => /\ lastFrame'.background
               /\ lastFrame'.passes[1] = "environment"
       /\ (needUpdateBackground /\ ~needUpdateBackground')
            => /\ UnpausedFrame
               /\ lastFrame'.background]_vars

\* the first frame after a resume: the environment is rendered for the
\* flag alone, and the flag is clear again
C32_Witness ==
    /\ lastFrame.kind = "rendered"
    /\ lastFrame.afterResume
    /\ lastFrame.background
    /\ ~lastFrame.moved
    /\ ~lastFrame.forced
    /\ ~needUpdateBackground

\* the position of a resource in the releases (0: not released)
ReleasedAt(resource) ==
    IF \E i \in DOMAIN released : released[i] = resource
    THEN CHOOSE i \in DOMAIN released : released[i] = resource
    ELSE 0

\* both released, the first before the second, or one of them absent
Before(first, second) ==
    (ReleasedAt(first) # 0 /\ ReleasedAt(second) # 0)
        => ReleasedAt(first) < ReleasedAt(second)

\* C33: teardown releases the off-screen target, then the quad's geometry
\* and material, then the backdrop's, then the orbit controller, the
\* viewer, both scene graphs, and the renderer last.
C33_TeardownOrder ==
    released # <<>>
        => /\ Before("target", "quad")
           /\ Before("quad", "backdrop")
           /\ Before("backdrop", "controls")
           /\ Before("backdrop", "viewer")
           /\ Before("controls", "viewer")
           /\ Before("viewer", "environmentScene")
           /\ Before("viewer", "humanoidScene")
           /\ released[Len(released)] = "renderer"

\* a playAction call that started a clip
Started(n, t, r) == PlayAction(n, TRUE, t, r) /\ lastCall'.result = "started"

\* C34: a playAction that starts a clip with transition 0 or with
\* resetSpringBones passes one callback to requestAnimationFrame and resets
\* nothing itself; the first animation frame after it turns that callback
\* into an inner one, still without a reset, and the second runs the reset,
\* once; a playAction with a positive transition and no request, and every
\* other step, schedules nothing and resets nothing.
C34_ResetAfterTwoFrames ==
    [][/\ \A n \in ClipNames, t \in Transitions, r \in BOOLEAN :
             Started(n, t, r)
                => /\ frameCallbacks'.outer
                        = frameCallbacks.outer + (IF t = 0 \/ r THEN 1 ELSE 0)
                   /\ frameCallbacks'.inner = frameCallbacks.inner
                   /\ springBoneResets' = springBoneResets
       /\ animationFrame
            => /\ frameCallbacks'.outer = 0
               /\ frameCallbacks'.inner = frameCallbacks.outer
               /\ springBoneResets' = springBoneResets + frameCallbacks.inner
       /\ (frameCallbacks' # frameCallbacks \/ springBoneResets' # springBoneResets)
            => \/ animationFrame
               \/ \E n \in ClipNames, t \in Transitions, r \in BOOLEAN :
                     Started(n, t, r) /\ (t = 0 \/ r)]_vars

\* the reset of one playAction has run, that of a later one waits for its
\* second frame
C34_Witness ==
    /\ springBoneResets = 1
    /\ frameCallbacks = [outer |-> 0, inner |-> 1]
    /\ Len(plays) = 2

\* the viewer is not yet in the environment scene: the COMPLETED listener
\* has not passed backgroundScene.add(viewer)
ViewerNotAdded == avatarPhase \in {"loading", "addingSplat"}

\* C35: until the viewer is added to the environment scene the first-paint
\* and settle fractions are 0 and the visible value is at most 90; the
\* settle phase starts only once the first-paint fraction is 100; the
\* visible value 100 and `loaded`, `ready` come only when the settle
\* fraction has reached 100.
C35_ProgressPhases ==
    /\ ViewerNotAdded
         => /\ sceneRenderingProgress = 0
            /\ forceWaitProgress = 0
            /\ preloadProgress <= RESOURCE_LOADING_WEIGHT
    /\ (avatarPhase = "wait" \/ forceWaitProgress > 0) => sceneRenderingProgress = 100
    /\ (preloadProgress = 100 \/ avatarPhase = "ready")
         => /\ avatarPhase = "ready"
            /\ forceWaitProgress = 100

\* the rig is detached or replaced
RigDetached == clearVRM \/ \E rig \in Rigs : setVRM(rig)

\* the mixer has just dispatched 'finished' for the playback of the clip
\* that was active, a one-shot
ActiveFinished ==
    /\ lastEvent'.kind = "finished"
    /\ lastEvent'.play = actions[activeActionName].play
    /\ ~actions[activeActionName].loop

\* C36: with the rig attached, the controller becomes idle only by
\* endAction() or by the end of the active one-shot clip, and the end of
\* the active one-shot clip makes it idle with that clip fading out: the
\* 'finished' of a superseded clip leaves the later clip active, and a
\* looping active clip is not ended by a completion.
C36_IdleOnlyWhenActiveEnds ==
    [][/\ (activeActionName # "none" /\ activeActionName' = "none")
            => (endAction \/ RigDetached \/ ActiveFinished)
       /\ (activeActionName # "none" /\ ActiveFinished)
            => /\ activeActionName' = "none"
               /\ actions'[activeActionName].fade = "out"]_vars

\* C38: the active clip name, when there is one, is the name of an action
\* that is registered for the attached rig and scheduled on its mixer; and
\* a playAction of a registered name whose action is not scheduled (just
\* registered, or registered again) starts it instead of returning as
\* already active.
C38_ActiveIsRegistered ==
    [][/\ activeActionName' # "none"
            => /\ vrm' # 0
               /\ HasAction(actions', activeActionName')
               /\ actions'[activeActionName'].mixer = animationMixer'
               /\ actions'[activeActionName'].running
       /\ (/\ lastCall'.op = "playAction"
           /\ vrm # 0
           /\ animationMixer # 0
           /\ HasAction(actions, lastCall'.name)
           /\ ~actions[lastCall'.name].running)
            => lastCall'.result = "started"]_vars

\* C37: `completed` is dispatched at most once, whatever the order of the
\* RESOURCE_LOADED and ALL_COMPLETED messages and the decode callbacks; the
\* Avatar's COMPLETED listener, which starts the frame loop and leads to
\* `loaded` and `ready`, has therefore run at most once, and only after that
\* one event.
C37_CompletedOnce ==
    /\ completedCount <= 1
    /\ avatarPhase # "loading" => completedCount = 1

\* ALL_COMPLETED was handled after the only decode had resolved and has
\* dispatched the one `completed`; the Avatar has emitted `ready`
C37_Witness ==
    /\ completedCount = 1
    /\ completedBy = "message"
    /\ allCompletedSeen
    /\ totalResourcesCount = 2
    /\ \E i \in 1..totalResourcesCount : IsGLTF(resources[i].type)
    /\ pendingGLTFLoads = {}
    /\ avatarPhase = "ready"

\* C39: while the host has paused the compositor, or the page is hidden,
\* rendering is paused, whatever visibility changes and preloader events
\* occur.
C39_PausedWhileHostPausedOrHidden ==
    (hostPaused \/ hidden) => isPaused

\* the end of an unpaused frame that leaves the repaint flag clear
SettledFrame == lastFrame.kind = "rendered" /\ ~needUpdateBackground

====
